---- MODULE Spec2Model ----
(***************************************************************************)
(* A model of the session core of libmqtt-c (src/src/core/mqtt.c): the     *)
(* client structure, the public publish/subscribe operations run by user   *)
(* threads, and the receive thread with its keepalive and reconnect logic. *)
(* The transport and the clock are the environment.  A transport send is   *)
(* two steps (first part of the packet, rest of the packet), so that two   *)
(* sends that are not serialised can interleave on the wire.               *)
(***************************************************************************)
EXTENDS Integers, Sequences, FiniteSets, TLC

VARIABLES
    state,            \* client->state
    socket,           \* client->socket (0 is NULL)
    packet_id,        \* client->packet_id (uint16_t)
    subscriptions,    \* client->subscriptions[0 .. sub_count-1]
    running,          \* client->running
    mutex,            \* owner of client->mutex
    last_ping_time,   \* client->last_ping_time (uint32_t)
    ping_sent_time,   \* client->ping_sent_time (uint32_t)
    waiting_pingresp, \* client->waiting_pingresp
    send_buf,         \* client->send_buf: the packet last encoded into it
    keepalive,        \* client->config.keepalive, seconds
    appTopics,        \* the topic filters the application passes
    now,              \* os->get_time_ms()
    ticks,            \* clock steps elapsed since the start of the run
    open,             \* transport handles connected and not yet closed
    faults,           \* transport faults the environment may still inject
    wire,             \* the first part of a packet whose send has not returned
    torn,             \* the sink saw a part of a packet that did not follow its start
    rlog,             \* packets sent whole on the latest connection attempt
    rpc,              \* receive thread: position
    ri,               \* receive thread: resubscribe loop index i
    rsend,            \* receive thread: the net->send call in progress
    u,                \* user threads: position, arguments, result
    opsLeft,          \* public calls the user threads may still start
    cpc,              \* creating and destroying thread: position
    acq,              \* times each resource of the client was acquired
    rel,              \* times each resource of the client was released
    sem,              \* count of client->thread_exit_sem
    recv_buf,         \* client->recv_buf: the reply read by the last handshake
    appLens,          \* the payload lengths the application passes
    appQos,           \* the qos values the application passes
    msg_cb,           \* client->config.msg_cb is set
    rl,               \* a remaining-length value being encoded and decoded
    inLeft,           \* inbound reads with PUBLISH packets the broker may still cause
    arrived,          \* PUBLISH packets received while a callback is configured
    cblog             \* invocations of the message callback, in order

vars == <<state, socket, packet_id, subscriptions, running, mutex,
          last_ping_time, ping_sent_time, waiting_pingresp, send_buf,
          keepalive, appTopics, now, ticks, open, faults, wire,
          torn, rlog, rpc, ri, rsend, u, opsLeft, cpc, acq, rel, sem,
          recv_buf, appLens, appQos, msg_cb, rl, inLeft, arrived, cblog>>

appVars == <<keepalive, appTopics, appLens, appQos, msg_cb, rl>>
cfgVars == <<appVars, running, cpc, acq, rel, sem>>
cbVars == <<inLeft, arrived, cblog>>
pingVars == <<last_ping_time, ping_sent_time, waiting_pingresp>>
clockVars == <<now, ticks>>
sinkVars == <<wire, torn>>
userVars == <<u, opsLeft>>

----------------------------------------------------------------------------
(* Program constants *)

MQTT_MAX_SUBSCRIPTIONS == 8
MQTT_TOPIC_FIELD_SIZE == 128
MQTT_INITIAL_PACKET_ID == 1
MQTT_RECONNECT_DELAY_MS == 1000
MQTT_RECV_TIMEOUT_MS == 2000
MQTT_KEEPALIVE_DIVISOR == 2
MQTT_MS_PER_SECOND == 1000
UINT16_RANGE == 65536
MQTT_BYTE_MULTIPLIER == 128
MQTT_PUBLISH == 3
MQTT_TOPIC_BUFFER_SIZE == 128
UINT8_RANGE == 256
MQTT_MAX_PACKET_SIZE == 1024
MQTT_REMAINING_LENGTH_MAX == 4

MQTT_STATE_DISCONNECTED == "DISCONNECTED"
MQTT_STATE_CONNECTED == "CONNECTED"

(* Bounds of the model *)

MaxOps == 2
MaxFaults == 1
MaxTicks == 3
MaxInbound == 2

Users == {"u1", "u2"}
(* Call slots are interchangeable: a call takes the first free one. *)
UserBefore(a, b) == a = "u1" /\ b = "u2"
Reader == "reader"
NoOwner == "none"
NULL == 0

Min(a, b) == IF a < b THEN a ELSE b

ClockStep == MQTT_MS_PER_SECOND
KeepaliveChoices == {2}
PayloadLens == {2}
QosChoices == {0, 1}

(* A topic is a string of n copies of one non-zero byte: strlen is n, and    *)
(* strcmp finds two of them equal when the byte and the length agree.         *)
Topic(byte, n) == [byte |-> byte, len |-> n]
NoTopic == Topic(0, 0)
TopicA == Topic(97, 1)
PubTopic == Topic(112, 1)
TopicLong == Topic(120, MQTT_TOPIC_FIELD_SIZE)
ShortTopic(k) == Topic(48 + k, 1)


----------------------------------------------------------------------------
(* Packets, as the pack_* functions lay them out *)

pack_connect == [type |-> "CONNECT", pid |-> 0, topic |-> NoTopic, qos |-> 0, plen |-> 0]

(* encode_remaining_length: seven bits a byte, low bits first, bit 7 set on *)
(* every byte but the last; the loop has no limit on the number of bytes     *)
RECURSIVE encode_remaining_length(_)
encode_remaining_length(len) ==
    LET byte == len % MQTT_BYTE_MULTIPLIER
        rest == len \div MQTT_BYTE_MULTIPLIER
    IN IF rest > 0
       THEN <<byte + MQTT_BYTE_MULTIPLIER>> \o encode_remaining_length(rest)
       ELSE <<byte>>

(* the decoding loop from its count-th pass on *)
RECURSIVE DecodeFrom(_, _, _, _)
DecodeFrom(buf, count, multiplier, len) ==
    IF count >= MQTT_REMAINING_LENGTH_MAX
    THEN [count |-> -1, len |-> len]
    ELSE LET byte == buf[count + 1]
             sum == len + (byte % MQTT_BYTE_MULTIPLIER) * multiplier
         IN IF byte >= MQTT_BYTE_MULTIPLIER
            THEN DecodeFrom(buf, count + 1, multiplier * MQTT_BYTE_MULTIPLIER, sum)
            ELSE [count |-> count + 1, len |-> sum]

(* decode_remaining_length: the bytes consumed (or -1) and the value *)
decode_remaining_length(buf) == DecodeFrom(buf, 0, 1, 0)

(* the largest value four bytes hold *)
MaxRemainingLength ==
    MQTT_BYTE_MULTIPLIER * MQTT_BYTE_MULTIPLIER * MQTT_BYTE_MULTIPLIER
        * MQTT_BYTE_MULTIPLIER - 1

(* a | b on unsigned values *)
RECURSIVE BitOr(_, _)
BitOr(a, b) ==
    IF a = 0 THEN b
    ELSE IF b = 0 THEN a
    ELSE (IF a % 2 = 1 \/ b % 2 = 1 THEN 1 ELSE 0) + 2 * BitOr(a \div 2, b \div 2)

(* the packet type in the high four bits of the first byte *)
PacketType(n) ==
    CASE n = 1 -> "CONNECT"  [] n = 2 -> "CONNACK"  [] n = MQTT_PUBLISH -> "PUBLISH"
      [] n = 4 -> "PUBACK"   [] n = 5 -> "PUBREC"   [] n = 6 -> "PUBREL"
      [] n = 7 -> "PUBCOMP"  [] n = 8 -> "SUBSCRIBE" [] n = 9 -> "SUBACK"
      [] n = 10 -> "UNSUBSCRIBE" [] n = 11 -> "UNSUBACK" [] n = 12 -> "PINGREQ"
      [] n = 13 -> "PINGRESP" [] n = 14 -> "DISCONNECT" [] OTHER -> "RESERVED"

(* buf[0] = (MQTT_PUBLISH << 4) | (qos << 1), stored in a uint8_t *)
PublishHeader(qos) == BitOr(MQTT_PUBLISH * 16, qos * 2) % UINT8_RANGE

(* pack_publish: the type and the QoS are what the first byte says; the      *)
(* identifier is written when the argument qos is not 0                       *)
pack_publish(topic, plen, qos, pid) ==
    [type |-> PacketType(PublishHeader(qos) \div 16),
     pid |-> IF qos > 0 THEN pid ELSE 0, topic |-> topic,
     qos |-> (PublishHeader(qos) \div 2) % 4, plen |-> plen]

(* send_buf is followed in mqtt_client_t by recv_buf: the bytes pack_publish  *)
(* writes past the end of send_buf land at the start of recv_buf.  The        *)
(* payload is zeros; recv_buf[0] gives the type, recv_buf[3] the return code. *)
Overrun(buf, len) ==
    LET over == len - MQTT_MAX_PACKET_SIZE
    IN [buf EXCEPT !.type = IF over > 0 THEN PacketType(0) ELSE @,
                   !.rc = IF over > 3 THEN 0 ELSE @]

(* the value pack_publish returns: the bytes it has written from buf[0] on *)
PublishLen(topic, plen, qos) ==
    LET remaining == 2 + topic.len + plen + (IF qos > 0 THEN 2 ELSE 0)
    IN 1 + Len(encode_remaining_length(remaining)) + remaining

pack_subscribe(topic, qos, pid) ==
    [type |-> "SUBSCRIBE", pid |-> pid, topic |-> topic, qos |-> qos, plen |-> 0]

pack_pingreq == [type |-> "PINGREQ", pid |-> 0, topic |-> NoTopic, qos |-> 0, plen |-> 0]

CarriesId(p) == p.type = "SUBSCRIBE" \/ (p.type = "PUBLISH" /\ p.qos > 0)

(* client->packet_id++ on a uint16_t *)
NextPacketId(p) == (p + 1) % UINT16_RANGE

(* strncpy(dst, topic, sizeof(dst) - 1) into a zeroed 128-byte field *)
StoredTopic(topic) == Topic(topic.byte, Min(topic.len, MQTT_TOPIC_FIELD_SIZE - 1))

(* A uint32_t is kept as its two 16-bit halves <<high, low>>. *)
U32(n) == <<n \div UINT16_RANGE, n % UINT16_RANGE>>

U32Add(a, d) ==
    LET lo == a[2] + d
    IN <<(a[1] + lo \div UINT16_RANGE) % UINT16_RANGE, lo % UINT16_RANGE>>

(* a - b that is 0 when the clock value a is below b, instead of wrapping *)
ElapsedSaturates(a, b) ==
    IF a[1] < b[1] \/ (a[1] = b[1] /\ a[2] < b[2])
    THEN <<0, 0>>
    ELSE LET borrow == IF a[2] < b[2] THEN 1 ELSE 0
         IN <<a[1] - b[1] - borrow, (a[2] - b[2] + UINT16_RANGE) % UINT16_RANGE>>

(* a - b in uint32_t *)
Elapsed(a, b) ==
    LET borrow == IF a[2] < b[2] THEN 1 ELSE 0
    IN <<(a[1] - b[1] - borrow + UINT16_RANGE) % UINT16_RANGE,
         (a[2] - b[2] + UINT16_RANGE) % UINT16_RANGE>>

(* x >= n for a uint32_t x and 0 <= n < 2^31 *)
U32AtLeast(x, n) ==
    \/ x[1] > n \div UINT16_RANGE
    \/ x[1] = n \div UINT16_RANGE /\ x[2] >= n % UINT16_RANGE

(* keepalive_ms / MQTT_KEEPALIVE_DIVISOR *)
KeepaliveThreshold(k) == (k * MQTT_MS_PER_SECOND) \div MQTT_KEEPALIVE_DIVISOR

----------------------------------------------------------------------------
(* The transport *)

Chunk(h, p, part, by) == [sock |-> h, pkt |-> p, part |-> part, by |-> by]

(* What net->send(h, ..) can return: the whole length, fewer bytes, or a     *)
(* negative value.  A handle that is not open only fails.                    *)
SendOutcomes(h) ==
    IF h \in open
    THEN {"full"} \cup (IF faults > 0 THEN {"short", "neg"} ELSE {})
    ELSE {"neg"}

FaultsAfterSend(h, o) == IF h \in open /\ o # "full" THEN faults - 1 ELSE faults

NoChunk == [sock |-> NULL, pkt |-> pack_connect, part |-> 0, by |-> NoOwner]

(* The sink at the far end of the transport.  It holds the first part of the *)
(* packet being written.  A first part arriving while another send is still   *)
(* in progress, or a second part that does not continue the part held, tears  *)
(* the stream.                                                                *)
SinkAfterBegin(h, p, o, by) ==
    IF o \in {"full", "short"}
    THEN [wire |-> Chunk(h, p, 1, by), torn |-> torn \/ wire # NoChunk]
    ELSE [wire |-> wire, torn |-> torn]

(* The rest of the packet goes out only if the handle is still open. *)
EndOutcome(h, o) == IF o = "full" /\ h \notin open THEN "short" ELSE o

SinkAfterEnd(h, o, by) ==
    IF o = "neg"
    THEN [wire |-> wire, torn |-> torn]
    ELSE [wire |-> NoChunk,
          torn |-> torn \/ (EndOutcome(h, o) = "full" /\ wire # Chunk(h, send_buf, 1, by))]

NoSend == [h |-> NULL, out |-> "none"]

(* The clock moves in steps and stops at the horizon of the run. *)
Advance(d) == Min(d \div ClockStep, MaxTicks - ticks)
NowAfter(d) == U32Add(now, Advance(d) * ClockStep)

RecvWaits == {0}
RecvTypes == {"PINGRESP", "PUBLISH", "SUBACK"}

----------------------------------------------------------------------------
(* The state after a successful mqtt_client_create: CONNECT was written on  *)
(* the first handle, CONNACK accepted, the receive thread started.          *)

IdleUser == [pc |-> "idle", op |-> "pub", null |-> FALSE, topic |-> PubTopic,
             qos |-> 0, plen |-> 0, h |-> NULL, out |-> "none", ret |-> 0]

NewCall(op, null, topic, qos, plen) ==
    [pc |-> "lock", op |-> op, null |-> null, topic |-> topic, qos |-> qos,
     plen |-> plen, h |-> NULL, out |-> "none", ret |-> 0]

(* A call that has returned: what was called, how the send ended, the result *)
Returned(call, out, ret) ==
    [IdleUser EXCEPT !.pc = "returned", !.op = call.op, !.topic = call.topic,
                     !.out = out, !.ret = ret]

Codec(phase, v, bytes, crashed, dec) ==
    [phase |-> phase, v |-> v, bytes |-> bytes, crashed |-> crashed, dec |-> dec]
NoDecode == [count |-> 0, len |-> 0]
IdleCodec == Codec("idle", 0, <<>>, FALSE, NoDecode)

(* A PUBLISH from the broker, and what one net->recv call puts in recv_buf:  *)
(* one packet, or two that arrived back to back on the byte stream           *)
InPublish(topic, plen, qos) == [topic |-> topic, plen |-> plen, qos |-> qos]
InA == InPublish(TopicA, 1, 0)
InB == InPublish(Topic(98, 1), 2, 1)
InLong == InPublish(Topic(120, MQTT_TOPIC_BUFFER_SIZE), 1, 0)
InboundReads == {<<InA>>, <<InB>>, <<InLong>>, <<InA, InB>>}

(* the value net->recv returns: the bytes of every packet of the read *)
RECURSIVE ReadLen(_)
ReadLen(read) ==
    IF read = <<>> THEN 0
    ELSE PublishLen(read[1].topic, read[1].plen, read[1].qos) + ReadLen(Tail(read))

(* mqtt_handle_publish(client, len): the callbacks it makes, each with the   *)
(* topic, the payload length and the owner of the mutex at the call.  The    *)
(* packet decoded is the one at recv_buf[0]; the payload runs to len.         *)
handle_publish(read, cb, owner) ==
    LET first == read[1]
        remaining == 2 + first.topic.len + first.plen + (IF first.qos > 0 THEN 2 ELSE 0)
        offset == 1 + decode_remaining_length(encode_remaining_length(remaining)).count
                    + 2 + first.topic.len + (IF first.qos > 0 THEN 2 ELSE 0)
    IN IF ~cb THEN <<>>
       ELSE IF first.topic.len >= MQTT_TOPIC_BUFFER_SIZE THEN <<>>
       ELSE <<[topic |-> first.topic, plen |-> ReadLen(read) - offset, owner |-> owner]>>

(* the application's calls: short payloads, qos 0 and 1 *)
SmallCalls == appLens = PayloadLens /\ appQos = QosChoices

(* no message callback is configured *)
NoCallback == msg_cb = FALSE /\ inLeft = 0 /\ arrived = <<>> /\ cblog = <<>>

(* What the client owns: its memory, mutex, semaphore, transport handle and *)
(* receive thread                                                            *)
Resources == {"mem", "mutex", "sem", "sock", "thread"}

NoneOf == [r \in Resources |-> 0]
OnceEach(rs) == [r \in Resources |-> IF r \in rs THEN 1 ELSE 0]

(* What net->recv puts into recv_buf during a handshake: the number of      *)
(* bytes returned, the packet type of byte 0 and the return code of byte 3   *)
Reply(n, type, rc) == [len |-> n, type |-> type, rc |-> rc]
NoReply == Reply(0, "NONE", 0)
GoodConnack == Reply(4, "CONNACK", 0)
HandshakeReplies ==
    {GoodConnack, NoReply, Reply(-1, "NONE", 0), Reply(2, "CONNACK", 0),
     Reply(4, "PINGRESP", 0), Reply(4, "CONNACK", 5)}

(* the reply test with the return code left out *)
ConnackOkAnyCode(reply) == reply.len >= 4 /\ reply.type = "CONNACK"

(* recv_len >= MQTT_CONNACK_MIN_LEN, type == MQTT_CONNACK, recv_buf[3] == 0 *)
ConnackOk(reply) == reply.len >= 4 /\ reply.type = "CONNACK" /\ reply.rc = 0

(* the client that create has returned at time t0 *)
CreatedAt(t0) ==
    /\ cpc = "created"
    /\ acq = OnceEach(Resources)
    /\ rel = NoneOf
    /\ sem = 0
    /\ recv_buf = GoodConnack
    /\ state = MQTT_STATE_CONNECTED
    /\ socket = 1
    /\ running = TRUE
    /\ mutex = NoOwner
    /\ ping_sent_time = U32(0)
    /\ waiting_pingresp = FALSE
    /\ now = t0
    /\ last_ping_time = now
    /\ ticks = 0
    /\ open = {1}
    /\ faults = MaxFaults
    /\ wire = NoChunk
    /\ torn = FALSE
    /\ rlog = <<pack_connect>>
    /\ rpc = "top"
    /\ ri = 0
    /\ rsend = NoSend
    /\ u = [t \in Users |-> IdleUser]
    /\ opsLeft = MaxOps

CreatedClient == CreatedAt(U32(0)) /\ keepalive \in KeepaliveChoices

Init ==
    /\ CreatedClient
    /\ SmallCalls /\ NoCallback /\ rl = IdleCodec
    /\ packet_id = MQTT_INITIAL_PACKET_ID
    /\ subscriptions = <<>>
    /\ send_buf = pack_connect
    /\ appTopics = {TopicA, TopicLong}

(* The same client with an application that passes any qos and a payload of *)
(* 1200 bytes as well as a small one                                          *)
InitAny ==
    /\ CreatedClient
    /\ appLens = {2, 1200} /\ appQos = {0, 2, 32}
    /\ NoCallback /\ rl = IdleCodec
    /\ packet_id = MQTT_INITIAL_PACKET_ID
    /\ subscriptions = <<>>
    /\ send_buf = pack_connect
    /\ appTopics = {TopicA}

(* The client of an application that has subscribed to one topic, has a     *)
(* message callback and publishes now and then, while the broker delivers    *)
InitCb ==
    /\ CreatedClient
    /\ appLens = PayloadLens /\ appQos = {0}
    /\ msg_cb = TRUE /\ inLeft = MaxInbound /\ arrived = <<>> /\ cblog = <<>>
    /\ rl = IdleCodec
    /\ packet_id = MQTT_INITIAL_PACKET_ID + 1
    /\ subscriptions = <<[topic |-> TopicA, qos |-> 0]>>
    /\ send_buf = pack_subscribe(TopicA, 0, MQTT_INITIAL_PACKET_ID)
    /\ appTopics = {}

(* get_time_ms() at a create that is called 2500 ms before the uint32_t     *)
(* millisecond clock wraps                                                   *)
LateStart == <<UINT16_RANGE - 1, UINT16_RANGE - 2500>>

(* The client created then *)
InitLate ==
    /\ CreatedAt(LateStart) /\ keepalive \in KeepaliveChoices
    /\ SmallCalls /\ NoCallback /\ rl = IdleCodec
    /\ packet_id = MQTT_INITIAL_PACKET_ID
    /\ subscriptions = <<>>
    /\ send_buf = pack_connect
    /\ appTopics = {TopicA}

(* The client of an application that has configured keepalive 0 *)
InitZero ==
    /\ CreatedAt(U32(0)) /\ keepalive = 0
    /\ SmallCalls /\ NoCallback /\ rl = IdleCodec
    /\ packet_id = MQTT_INITIAL_PACKET_ID
    /\ subscriptions = <<>>
    /\ send_buf = pack_connect
    /\ appTopics = {TopicA}

(* The client after 65534 QoS 1 publishes, all sent whole: the counter has   *)
(* been incremented 65534 times from MQTT_INITIAL_PACKET_ID.                 *)
LastPublish == NewCall("pub", FALSE, PubTopic, 1, 2)

InitWrap ==
    /\ CreatedClient
    /\ SmallCalls /\ NoCallback /\ rl = IdleCodec
    /\ packet_id = UINT16_RANGE - 1
    /\ subscriptions = <<>>
    /\ send_buf = pack_publish(PubTopic, LastPublish.plen, 1, UINT16_RANGE - 2)
    /\ appTopics = {TopicA, TopicLong}

(* The client after subscribe calls for seven distinct topics, all sent     *)
(* whole; the application goes on with two further topics.                   *)
SevenSubscriptions ==
    [i \in 1..(MQTT_MAX_SUBSCRIPTIONS - 1) |-> [topic |-> ShortTopic(i), qos |-> i % 2]]

InitFull ==
    /\ CreatedClient
    /\ SmallCalls /\ NoCallback /\ rl = IdleCodec
    /\ packet_id = MQTT_INITIAL_PACKET_ID + Len(SevenSubscriptions)
    /\ subscriptions = SevenSubscriptions
    /\ send_buf = pack_subscribe(ShortTopic(Len(SevenSubscriptions)),
                                 Len(SevenSubscriptions) % 2, Len(SevenSubscriptions))
    /\ appTopics = {ShortTopic(MQTT_MAX_SUBSCRIPTIONS), ShortTopic(MQTT_MAX_SUBSCRIPTIONS + 1)}

(* Before mqtt_client_create: nothing is allocated, no thread runs.  The    *)
(* fields hold what memset and the first assignments of create give them.    *)
NotCreated ==
    /\ cpc = "start"
    /\ acq = NoneOf
    /\ rel = NoneOf
    /\ sem = 0
    /\ recv_buf = NoReply
    /\ state = MQTT_STATE_DISCONNECTED
    /\ socket = NULL
    /\ running = FALSE
    /\ mutex = NoOwner
    /\ packet_id = MQTT_INITIAL_PACKET_ID
    /\ subscriptions = <<>>
    /\ send_buf = pack_connect
    /\ last_ping_time = U32(0)
    /\ ping_sent_time = U32(0)
    /\ waiting_pingresp = FALSE
    /\ keepalive \in KeepaliveChoices
    /\ appTopics = {TopicA, TopicLong}
    /\ now = U32(0)
    /\ ticks = 0
    /\ open = {}
    /\ faults = MaxFaults
    /\ wire = NoChunk
    /\ torn = FALSE
    /\ rlog = <<>>
    /\ rpc = "none"
    /\ ri = 0
    /\ rsend = NoSend
    /\ u = [t \in Users |-> IdleUser]
    /\ opsLeft = MaxOps

InitLife == NotCreated /\ SmallCalls /\ NoCallback /\ rl = IdleCodec

----------------------------------------------------------------------------
(* a lock that does not exclude *)
MutexFreeBroken == TRUE

(* os->mutex_lock returns once no thread holds the mutex *)
MutexFree == mutex = NoOwner

(* the state test left out *)
IsConnectedAlways(s) == TRUE

(* the test  client->state != MQTT_STATE_CONNECTED  of publish and subscribe *)
IsConnected(s) == s = MQTT_STATE_CONNECTED

(* return (ret > 0) ? 0 : -1 *)
ReturnCodeShortOk(out) == IF out \in {"full", "short"} THEN 0 ELSE -1

(* return (ret == len) ? 0 : -1 *)
ReturnCode(out) == IF out = "full" THEN 0 ELSE -1

(* the registry update without the strcmp scan *)
RegistryAfterNoScan(subs, topic, qos, out) ==
    IF out = "full" /\ Len(subs) < MQTT_MAX_SUBSCRIPTIONS
    THEN Append(subs, [topic |-> StoredTopic(topic), qos |-> qos])
    ELSE subs

(* the registry update with  sub_count <= MQTT_MAX_SUBSCRIPTIONS *)
RegistryAfterOffByOne(subs, topic, qos, out) ==
    IF out = "full" /\ Len(subs) <= MQTT_MAX_SUBSCRIPTIONS
    THEN IF \E i \in 1..Len(subs) : subs[i].topic = topic
         THEN subs
         ELSE Append(subs, [topic |-> StoredTopic(topic), qos |-> qos])
    ELSE subs

(* the registry update without the test  ret == len *)
RegistryAfterAnySend(subs, topic, qos, out) ==
    IF Len(subs) < MQTT_MAX_SUBSCRIPTIONS
    THEN IF \E i \in 1..Len(subs) : subs[i].topic = topic
         THEN subs
         ELSE Append(subs, [topic |-> StoredTopic(topic), qos |-> qos])
    ELSE subs

(* the registry update that stores the new qos in the entry it has found *)
RegistryAfterUpdatesQos(subs, topic, qos, out) ==
    IF out = "full" /\ Len(subs) < MQTT_MAX_SUBSCRIPTIONS
    THEN IF \E i \in 1..Len(subs) : subs[i].topic = topic
         THEN [i \in 1..Len(subs) |->
                  IF subs[i].topic = topic THEN [subs[i] EXCEPT !.qos = qos] ELSE subs[i]]
         ELSE Append(subs, [topic |-> StoredTopic(topic), qos |-> qos])
    ELSE subs

(* The registry update of mqtt_client_subscribe: after a whole send and with *)
(* room left, scan with strcmp and append the truncated copy if not found.   *)
RegistryAfter(subs, topic, qos, out) ==
    IF out = "full" /\ Len(subs) < MQTT_MAX_SUBSCRIPTIONS
    THEN IF \E i \in 1..Len(subs) : subs[i].topic = topic
         THEN subs
         ELSE Append(subs, [topic |-> StoredTopic(topic), qos |-> qos])
    ELSE subs

----------------------------------------------------------------------------
(* User threads: mqtt_client_publish and mqtt_client_subscribe *)

(* A user thread calls publish or subscribe, with a client handle or NULL:   *)
(* if (!client || client->state != MQTT_STATE_CONNECTED) return -1;          *)
UserCall(t) ==
    /\ u[t].pc \in {"idle", "returned"}
    /\ \A other \in Users : UserBefore(other, t) => u[other].pc \notin {"idle", "returned"}
    /\ opsLeft > 0
    /\ opsLeft' = opsLeft - 1
    /\ \E op \in {"pub", "sub"}, null \in BOOLEAN, topic \in appTopics \cup {PubTopic},
          qos \in appQos, plen \in appLens :
          /\ op = "pub" <=> topic = PubTopic
          /\ null => (op = "pub" /\ qos = 0)
          /\ LET call == NewCall(op, null, topic, qos, IF op = "pub" THEN plen ELSE 0)
             IN IF null \/ ~IsConnected(state)
                THEN u' = [u EXCEPT ![t] = Returned(call, "none", -1)]
                ELSE u' = [u EXCEPT ![t] = call]
    /\ UNCHANGED <<cbVars, recv_buf, state, socket, packet_id, subscriptions, mutex, send_buf, open,
                   faults, cfgVars, pingVars, clockVars, sinkVars, rlog, rpc,
                   ri, rsend>>

(* mutex_lock; allocate the identifier; encode; the send starts *)
UserLockSend(t) ==
    /\ u[t].pc = "lock"
    /\ MutexFree
    /\ mutex' = t
    /\ LET usesId == u[t].op = "sub" \/ u[t].qos > 0
           pkt == IF u[t].op = "sub"
                  THEN pack_subscribe(u[t].topic, u[t].qos, packet_id)
                  ELSE pack_publish(u[t].topic, u[t].plen, u[t].qos, packet_id)
       IN /\ packet_id' = IF usesId THEN NextPacketId(packet_id) ELSE packet_id
          /\ send_buf' = pkt
          /\ recv_buf' = IF u[t].op = "pub"
                         THEN Overrun(recv_buf, PublishLen(u[t].topic, u[t].plen, u[t].qos))
                         ELSE recv_buf
          /\ \E o \in SendOutcomes(socket) :
                /\ wire' = SinkAfterBegin(socket, pkt, o, t).wire
                /\ torn' = SinkAfterBegin(socket, pkt, o, t).torn
                /\ faults' = FaultsAfterSend(socket, o)
                /\ u' = [u EXCEPT ![t].pc = "sending", ![t].h = socket, ![t].out = o]
    /\ UNCHANGED <<cbVars, state, socket, subscriptions, open, cfgVars, pingVars,
                   clockVars, rlog, rpc, ri, rsend, opsLeft>>

(* the send returns; subscribe updates the registry; mutex_unlock; return *)
UserSendEnd(t) ==
    /\ u[t].pc = "sending"
    /\ LET o == EndOutcome(u[t].h, u[t].out)
       IN /\ wire' = SinkAfterEnd(u[t].h, u[t].out, t).wire
          /\ torn' = SinkAfterEnd(u[t].h, u[t].out, t).torn
          /\ subscriptions' = IF u[t].op = "sub"
                              THEN RegistryAfter(subscriptions, u[t].topic, u[t].qos, o)
                              ELSE subscriptions
          /\ u' = [u EXCEPT ![t] = Returned(u[t], o, ReturnCode(o))]
    /\ mutex' = NoOwner
    /\ UNCHANGED <<cbVars, recv_buf, state, socket, packet_id, send_buf, open, faults, cfgVars,
                   pingVars, clockVars, rlog, rpc, ri, rsend, opsLeft>>

User(t) == UserCall(t) \/ UserLockSend(t) \/ UserSendEnd(t)

----------------------------------------------------------------------------
(* The receive thread: mqtt_recv_thread, mqtt_try_reconnect, mqtt_send_ping *)

(* net->connect returns the lowest descriptor that is not in use *)
NewHandle == CHOOSE h \in 1..(Cardinality(open) + 1) :
                 h \notin open /\ \A g \in 1..(h - 1) : g \in open

(* net->disconnect(client->socket) without  client->socket = NULL *)
CloseSocketKeepsHandle ==
    /\ open' = open \ {socket}
    /\ socket' = socket

(* net->disconnect(client->socket); client->socket = NULL; *)
CloseSocket ==
    /\ open' = open \ {socket}
    /\ socket' = NULL

(* os->sleep_ms(MQTT_RECONNECT_DELAY_MS) after mqtt_try_reconnect failed *)
SleepAfterFailure ==
    /\ now' = NowAfter(MQTT_RECONNECT_DELAY_MS)
    /\ ticks' = ticks + Advance(MQTT_RECONNECT_DELAY_MS)
    /\ rpc' = "top"

(* err_cleanup, after which the thread gives up instead of retrying *)
ReconnectFailedGivesUp ==
    /\ CloseSocket
    /\ mutex' = NoOwner
    /\ rpc' = "stopped"
    /\ UNCHANGED clockVars

(* err_cleanup without os->mutex_unlock *)
ReconnectFailedKeepsLock ==
    /\ CloseSocket
    /\ UNCHANGED mutex
    /\ SleepAfterFailure

(* err_cleanup of mqtt_try_reconnect; the caller sleeps and continues *)
ReconnectFailed ==
    /\ CloseSocket
    /\ mutex' = NoOwner
    /\ SleepAfterFailure

(* for (i = 0; i < client->sub_count - 1; i++) *)
ResubDoneEarly(i, n) == i >= n

(* for (i = 0; i < client->sub_count; i++): the loop is over *)
ResubDone(i, n) == i > n

(* mqtt_send_ping without the timeout branch *)
PingDecisionNoTimeout ==
    IF waiting_pingresp
    THEN "recv"
    ELSE IF ~U32AtLeast(Elapsed(now, last_ping_time), KeepaliveThreshold(keepalive))
         THEN "recv" ELSE "ping"

(* mqtt_send_ping without the test of the time since last_ping_time *)
PingDecisionIgnoresInterval ==
    IF waiting_pingresp
    THEN IF U32AtLeast(Elapsed(now, ping_sent_time), KeepaliveThreshold(keepalive))
         THEN "timeout" ELSE "recv"
    ELSE "ping"

(* mqtt_send_ping that does nothing when keepalive is 0 *)
PingDecisionZeroDisables ==
    IF keepalive = 0 THEN "recv"
    ELSE IF waiting_pingresp
    THEN IF U32AtLeast(Elapsed(now, ping_sent_time), KeepaliveThreshold(keepalive))
         THEN "timeout" ELSE "recv"
    ELSE IF ~U32AtLeast(Elapsed(now, last_ping_time), KeepaliveThreshold(keepalive))
         THEN "recv" ELSE "ping"

(* What mqtt_send_ping decides on entry: a late PINGRESP is a timeout, a due *)
(* PINGREQ is sent, otherwise nothing is done and the thread goes to recv.   *)
PingDecision ==
    IF waiting_pingresp
    THEN IF U32AtLeast(Elapsed(now, ping_sent_time), KeepaliveThreshold(keepalive))
         THEN "timeout" ELSE "recv"
    ELSE IF ~U32AtLeast(Elapsed(now, last_ping_time), KeepaliveThreshold(keepalive))
         THEN "recv" ELSE "ping"

(* the state test without the loop test *)
AtTopIgnoresRunning(s) == rpc = "top" /\ state = s

(* the loop test and the state test at the top of the loop *)
AtTop(s) == rpc = "top" /\ running /\ state = s

(* Disconnected: net->connect; a NULL handle fails the attempt *)
ReaderConnect ==
    /\ AtTop(MQTT_STATE_DISCONNECTED)
    /\ \/ /\ socket' = NewHandle
          /\ open' = open \cup {NewHandle}
          /\ rlog' = <<>>
          /\ rpc' = "rc_lock"
          /\ UNCHANGED <<faults, clockVars>>
       \/ /\ faults > 0
          /\ faults' = faults - 1
          /\ socket' = NULL
          /\ SleepAfterFailure
          /\ UNCHANGED <<open, rlog>>
    /\ UNCHANGED <<cbVars, recv_buf, state, packet_id, subscriptions, mutex, send_buf, cfgVars,
                   pingVars, sinkVars, ri, rsend, userVars>>

(* mutex_lock; pack_connect; the send of CONNECT starts *)
ReaderConnectSend ==
    /\ rpc = "rc_lock"
    /\ MutexFree
    /\ mutex' = Reader
    /\ send_buf' = pack_connect
    /\ \E o \in SendOutcomes(socket) :
          /\ wire' = SinkAfterBegin(socket, pack_connect, o, Reader).wire
          /\ torn' = SinkAfterBegin(socket, pack_connect, o, Reader).torn
          /\ faults' = FaultsAfterSend(socket, o)
          /\ rsend' = [h |-> socket, out |-> o]
    /\ rpc' = "rc_sending"
    /\ UNCHANGED <<cbVars, recv_buf, state, socket, packet_id, subscriptions, open, cfgVars,
                   pingVars, clockVars, rlog, ri, userVars>>

(* what every returning send of the receive thread does to the sink and log *)
ReaderSendReturns ==
    /\ wire' = SinkAfterEnd(rsend.h, rsend.out, Reader).wire
    /\ torn' = SinkAfterEnd(rsend.h, rsend.out, Reader).torn
    /\ rsend' = NoSend

(* the send of CONNECT returns: != len goes to err_cleanup *)
ReaderConnectSent ==
    /\ rpc = "rc_sending"
    /\ ReaderSendReturns
    /\ IF EndOutcome(rsend.h, rsend.out) = "full"
       THEN /\ rpc' = "rc_recv"
            /\ rlog' = Append(rlog, send_buf)
            /\ UNCHANGED <<socket, open, mutex, clockVars>>
       ELSE /\ ReconnectFailed
            /\ UNCHANGED rlog
    /\ UNCHANGED <<cbVars, recv_buf, state, packet_id, subscriptions, send_buf, faults, cfgVars,
                   pingVars, ri, userVars>>

(* net->recv of the reply: a CONNACK with return code 0, or anything else *)
ReaderConnack ==
    /\ rpc = "rc_recv"
    /\ \E reply \in HandshakeReplies :
          /\ recv_buf' = reply
          /\ IF ConnackOk(reply)
             THEN /\ rpc' = "rc_sub"
                  /\ ri' = 1
                  /\ UNCHANGED <<socket, open, mutex, faults, clockVars>>
             ELSE /\ faults > 0
                  /\ faults' = faults - 1
                  /\ ReconnectFailed
                  /\ UNCHANGED ri
    /\ UNCHANGED <<cbVars, state, packet_id, subscriptions, send_buf, cfgVars, pingVars,
                   sinkVars, rlog, rsend, userVars>>

(* loop body: pack_subscribe(entry i, client->packet_id++); the send starts *)
ReaderResubSend ==
    /\ rpc = "rc_sub"
    /\ ~ResubDone(ri, Len(subscriptions))
    /\ LET pkt == pack_subscribe(subscriptions[ri].topic, subscriptions[ri].qos, packet_id)
       IN /\ send_buf' = pkt
          /\ packet_id' = NextPacketId(packet_id)
          /\ \E o \in SendOutcomes(socket) :
                /\ wire' = SinkAfterBegin(socket, pkt, o, Reader).wire
                /\ torn' = SinkAfterBegin(socket, pkt, o, Reader).torn
                /\ faults' = FaultsAfterSend(socket, o)
                /\ rsend' = [h |-> socket, out |-> o]
    /\ rpc' = "rc_sub_sending"
    /\ UNCHANGED <<cbVars, recv_buf, state, socket, subscriptions, mutex, open, cfgVars, pingVars,
                   clockVars, rlog, ri, userVars>>

(* the send of SUBSCRIBE returns: != len goes to err_cleanup, else i++ *)
ReaderResubSent ==
    /\ rpc = "rc_sub_sending"
    /\ ReaderSendReturns
    /\ IF EndOutcome(rsend.h, rsend.out) = "full"
       THEN /\ rpc' = "rc_sub"
            /\ ri' = ri + 1
            /\ rlog' = Append(rlog, send_buf)
            /\ UNCHANGED <<socket, open, mutex, clockVars>>
       ELSE /\ ReconnectFailed
            /\ UNCHANGED <<ri, rlog>>
    /\ UNCHANGED <<cbVars, recv_buf, state, packet_id, subscriptions, send_buf, faults, cfgVars,
                   pingVars, userVars>>

(* the end of mqtt_try_reconnect without  client->waiting_pingresp = 0 *)
ReaderReconnectedKeepsPending ==
    /\ rpc = "rc_sub"
    /\ ResubDone(ri, Len(subscriptions))
    /\ state' = MQTT_STATE_CONNECTED
    /\ last_ping_time' = now
    /\ mutex' = NoOwner
    /\ rpc' = "top"
    /\ UNCHANGED <<cbVars, recv_buf, socket, packet_id, subscriptions, send_buf, open, faults,
                   cfgVars, ping_sent_time, waiting_pingresp, clockVars, sinkVars, rlog,
                   ri, rsend, userVars>>

(* after the loop: Connected, last_ping_time, waiting_pingresp; mutex_unlock *)
ReaderReconnected ==
    /\ rpc = "rc_sub"
    /\ ResubDone(ri, Len(subscriptions))
    /\ state' = MQTT_STATE_CONNECTED
    /\ last_ping_time' = now
    /\ waiting_pingresp' = FALSE
    /\ mutex' = NoOwner
    /\ rpc' = "top"
    /\ UNCHANGED <<cbVars, recv_buf, socket, packet_id, subscriptions, send_buf, open, faults,
                   cfgVars, ping_sent_time, clockVars, sinkVars, rlog, ri, rsend,
                   userVars>>

(* the keepalive timeout without  client->state = MQTT_STATE_DISCONNECTED *)
ReaderPingTimeoutKeepsPhase ==
    /\ AtTop(MQTT_STATE_CONNECTED)
    /\ PingDecision = "timeout"
    /\ MutexFree
    /\ waiting_pingresp' = FALSE
    /\ CloseSocket
    /\ UNCHANGED <<cbVars, recv_buf, state, packet_id, subscriptions, mutex, send_buf, faults,
                   cfgVars, last_ping_time, ping_sent_time, clockVars, sinkVars, rlog,
                   rpc, ri, rsend, userVars>>

(* keepalive timeout: under the mutex, Disconnected, close, NULL; return -1 *)
ReaderPingTimeout ==
    /\ AtTop(MQTT_STATE_CONNECTED)
    /\ PingDecision = "timeout"
    /\ MutexFree
    /\ state' = MQTT_STATE_DISCONNECTED
    /\ waiting_pingresp' = FALSE
    /\ CloseSocket
    /\ UNCHANGED <<cbVars, recv_buf, packet_id, subscriptions, mutex, send_buf, faults, cfgVars,
                   last_ping_time, ping_sent_time, clockVars, sinkVars, rlog,
                   rpc, ri, rsend, userVars>>

(* a PINGREQ is due: mutex_lock; pack_pingreq; the send starts *)
ReaderPingSend ==
    /\ AtTop(MQTT_STATE_CONNECTED)
    /\ PingDecision = "ping"
    /\ MutexFree
    /\ mutex' = Reader
    /\ send_buf' = pack_pingreq
    /\ \E o \in SendOutcomes(socket) :
          /\ wire' = SinkAfterBegin(socket, pack_pingreq, o, Reader).wire
          /\ torn' = SinkAfterBegin(socket, pack_pingreq, o, Reader).torn
          /\ faults' = FaultsAfterSend(socket, o)
          /\ rsend' = [h |-> socket, out |-> o]
    /\ rpc' = "ping_sending"
    /\ UNCHANGED <<cbVars, recv_buf, state, socket, packet_id, subscriptions, open, cfgVars,
                   pingVars, clockVars, rlog, ri, userVars>>

(* mqtt_send_ping without the mutex_unlock on its success path *)
ReaderPingSentKeepsLock ==
    /\ rpc = "ping_sending"
    /\ ReaderSendReturns
    /\ IF EndOutcome(rsend.h, rsend.out) = "full"
       THEN /\ ping_sent_time' = now
            /\ waiting_pingresp' = TRUE
            /\ rpc' = "recv"
            /\ UNCHANGED <<state, socket, open, mutex>>
       ELSE /\ state' = MQTT_STATE_DISCONNECTED
            /\ CloseSocket
            /\ mutex' = NoOwner
            /\ rpc' = "top"
            /\ UNCHANGED <<ping_sent_time, waiting_pingresp>>
    /\ UNCHANGED <<cbVars, recv_buf, packet_id, subscriptions, send_buf, faults, cfgVars,
                   last_ping_time, clockVars, rlog, ri, userVars>>

(* the send of PINGREQ returns: != len disconnects, else the ping is pending *)
ReaderPingSent ==
    /\ rpc = "ping_sending"
    /\ ReaderSendReturns
    /\ mutex' = NoOwner
    /\ IF EndOutcome(rsend.h, rsend.out) = "full"
       THEN /\ ping_sent_time' = now
            /\ waiting_pingresp' = TRUE
            /\ rpc' = "recv"
            /\ UNCHANGED <<state, socket, open>>
       ELSE /\ state' = MQTT_STATE_DISCONNECTED
            /\ CloseSocket
            /\ rpc' = "top"
            /\ UNCHANGED <<ping_sent_time, waiting_pingresp>>
    /\ UNCHANGED <<cbVars, recv_buf, packet_id, subscriptions, send_buf, faults, cfgVars,
                   last_ping_time, clockVars, rlog, ri, userVars>>

(* mqtt_send_ping returned 0: the thread is in net->recv *)
InRecv == rpc = "recv" \/ (AtTop(MQTT_STATE_CONNECTED) /\ PingDecision = "recv")

(* net->recv returns 0 after the timeout, or data.  PINGRESP records the     *)
(* time and clears the pending flag; PUBLISH goes to mqtt_handle_publish,     *)
(* which calls msg_cb if there is one; other types are ignored.               *)
ReaderRecvOf(types) ==
    /\ InRecv
    /\ socket \in open
    /\ \/ /\ now' = NowAfter(MQTT_RECV_TIMEOUT_MS)
          /\ ticks' = ticks + Advance(MQTT_RECV_TIMEOUT_MS)
          /\ UNCHANGED <<last_ping_time, waiting_pingresp, cbVars>>
       \/ \E d \in RecvWaits, type \in types :
             /\ now' = NowAfter(d)
             /\ ticks' = ticks + Advance(d)
             /\ IF type = "PINGRESP"
                THEN /\ last_ping_time' = NowAfter(d)
                     /\ waiting_pingresp' = FALSE
                ELSE UNCHANGED <<last_ping_time, waiting_pingresp>>
             /\ IF type = "PUBLISH" /\ msg_cb
                THEN /\ inLeft > 0
                     /\ inLeft' = inLeft - 1
                     /\ \E read \in InboundReads :
                           /\ arrived' = arrived \o read
                           /\ cblog' = cblog \o handle_publish(read, msg_cb, mutex)
                ELSE UNCHANGED cbVars
    /\ rpc' = "top"
    /\ UNCHANGED <<recv_buf, state, socket, packet_id, subscriptions, mutex, send_buf,
                   open, faults, cfgVars, ping_sent_time, sinkVars, rlog, ri,
                   rsend, userVars>>

ReaderRecv == ReaderRecvOf(RecvTypes)

(* the error path without net->disconnect and  client->socket = NULL *)
ReaderRecvErrorKeepsHandle ==
    /\ InRecv
    /\ socket \in open => faults > 0
    /\ faults' = IF socket \in open THEN faults - 1 ELSE faults
    /\ MutexFree
    /\ IF state = MQTT_STATE_CONNECTED
       THEN state' = MQTT_STATE_DISCONNECTED
       ELSE UNCHANGED state
    /\ rpc' = "top"
    /\ UNCHANGED <<cbVars, recv_buf, socket, open, packet_id, subscriptions, mutex, send_buf,
                   cfgVars, pingVars, clockVars, sinkVars, rlog, ri, rsend, userVars>>

(* net->recv returns a negative value: under the mutex, if still Connected:   *)
(* Disconnected, close, NULL                                                  *)
ReaderRecvError ==
    /\ InRecv
    /\ socket \in open => faults > 0
    /\ faults' = IF socket \in open THEN faults - 1 ELSE faults
    /\ MutexFree
    /\ IF state = MQTT_STATE_CONNECTED
       THEN /\ state' = MQTT_STATE_DISCONNECTED
            /\ CloseSocket
       ELSE UNCHANGED <<state, socket, open>>
    /\ rpc' = "top"
    /\ UNCHANGED <<cbVars, recv_buf, packet_id, subscriptions, mutex, send_buf, cfgVars, pingVars,
                   clockVars, sinkVars, rlog, ri, rsend, userVars>>

ReaderStep ==
    \/ ReaderConnect \/ ReaderConnectSend \/ ReaderConnectSent \/ ReaderConnack
    \/ ReaderResubSend \/ ReaderResubSent \/ ReaderReconnected
    \/ ReaderPingTimeout \/ ReaderPingSend \/ ReaderPingSent
    \/ ReaderRecv \/ ReaderRecvError

----------------------------------------------------------------------------
(* mqtt_client_create and mqtt_client_destroy *)

CreateStages == {"malloc", "mutex", "sem", "connect", "send", "connack", "spawn"}

(* what create holds when the call of a stage fails *)
AcquiredAt(stage) ==
    CASE stage = "malloc" -> {}
      [] stage = "mutex" -> {"mem"}
      [] stage = "sem" -> {"mem", "mutex"}
      [] stage = "connect" -> {"mem", "mutex", "sem"}
      [] OTHER -> {"mem", "mutex", "sem", "sock"}

(* the connect failure jumping one label too low *)
FailLabelSkipsSem(stage) ==
    CASE stage = "malloc" -> "return"
      [] stage = "mutex" -> "err_free_client"
      [] stage = "sem" -> "err_destroy_mutex"
      [] stage = "connect" -> "err_destroy_mutex"
      [] OTHER -> "err_disconnect"

(* the label each failing stage of create jumps to *)
FailLabel(stage) ==
    CASE stage = "malloc" -> "return"
      [] stage = "mutex" -> "err_free_client"
      [] stage = "sem" -> "err_destroy_mutex"
      [] stage = "connect" -> "err_destroy_sem"
      [] OTHER -> "err_disconnect"

(* the releases executed from a label on, labels falling through *)
Ladder(label) ==
    CASE label = "err_disconnect" -> <<"sock", "sem", "mutex", "mem">>
      [] label = "err_destroy_sem" -> <<"sem", "mutex", "mem">>
      [] label = "err_destroy_mutex" -> <<"mutex", "mem">>
      [] label = "err_free_client" -> <<"mem">>
      [] OTHER -> <<>>

Count(seq, r) == Cardinality({i \in 1..Len(seq) : seq[i] = r})

(* mqtt_client_create, which runs before any other thread has the client:   *)
(* it succeeds, or one of its calls fails and the error labels release       *)
CreateReturns(fail, reply) ==
    /\ fail \in {"connect", "send", "connack"} => faults > 0
    /\ faults' = IF fail \in {"connect", "send", "connack"} THEN faults - 1 ELSE faults
    /\ recv_buf' = reply
    /\ IF fail = "none"
       THEN /\ cpc' = "created"
            /\ acq' = OnceEach(Resources)
            /\ rel' = NoneOf
            /\ socket' = NewHandle
            /\ open' = open \cup {NewHandle}
            /\ state' = MQTT_STATE_CONNECTED
            /\ last_ping_time' = now
            /\ running' = TRUE
            /\ rlog' = <<pack_connect>>
            /\ rpc' = "top"
       ELSE /\ cpc' = "failed"
            /\ acq' = OnceEach(AcquiredAt(fail))
            /\ rel' = [r \in Resources |-> Count(Ladder(FailLabel(fail)), r)]
            /\ open' = IF "sock" \in AcquiredAt(fail)
                          /\ Count(Ladder(FailLabel(fail)), "sock") = 0
                       THEN {NewHandle} ELSE open
            /\ UNCHANGED <<socket, state, last_ping_time, running, rlog, rpc>>
    /\ UNCHANGED <<cbVars, packet_id, subscriptions, mutex, send_buf, ping_sent_time,
                   waiting_pingresp, appVars, clockVars, sinkVars,
                   ri, rsend, userVars, sem>>

Create ==
    /\ cpc = "start"
    /\ \E fail \in CreateStages \cup {"none"}, reply \in HandshakeReplies :
          /\ IF fail \in {"none", "spawn"} THEN ConnackOk(reply)
             ELSE IF fail = "connack" THEN ~ConnackOk(reply)
             ELSE reply = NoReply
          /\ CreateReturns(fail, reply)

(* destroy: client->running = 0 *)
DestroyBegin ==
    /\ cpc = "created"
    /\ running' = FALSE
    /\ cpc' = "d_wait"
    /\ UNCHANGED <<cbVars, state, socket, packet_id, subscriptions, mutex, send_buf,
                   pingVars, appVars, clockVars, open, faults,
                   sinkVars, rlog, rpc, ri, rsend, userVars, acq, rel, sem,
                   recv_buf>>

(* destroy without sem_wait(thread_exit_sem) *)
DestroyJoinNoWait ==
    /\ cpc = "d_wait"
    /\ rel' = [rel EXCEPT !["thread"] = @ + 1]
    /\ cpc' = "d_close"
    /\ UNCHANGED <<cbVars, state, socket, packet_id, subscriptions, mutex, send_buf,
                   pingVars, appVars, running, clockVars, open,
                   faults, sinkVars, rlog, rpc, ri, rsend, userVars, acq, sem,
                   recv_buf>>

(* destroy: sem_wait(thread_exit_sem); thread_destroy(recv_thread) *)
DestroyJoin ==
    /\ cpc = "d_wait"
    /\ sem > 0
    /\ sem' = sem - 1
    /\ rel' = [rel EXCEPT !["thread"] = @ + 1]
    /\ cpc' = "d_close"
    /\ UNCHANGED <<cbVars, state, socket, packet_id, subscriptions, mutex, send_buf,
                   pingVars, appVars, running, clockVars, open,
                   faults, sinkVars, rlog, rpc, ri, rsend, userVars, acq,
                   recv_buf>>

(* destroy: with a handle, DISCONNECT is encoded and sent without the mutex *)
(* and the handle closed; then the semaphore, the mutex and the memory go    *)
DestroyRelease ==
    /\ cpc = "d_close"
    /\ IF socket # NULL
       THEN /\ send_buf' = [pack_pingreq EXCEPT !.type = "DISCONNECT"]
            /\ torn' = (torn \/ (wire # NoChunk /\ socket \in open))
            /\ open' = open \ {socket}
            /\ rel' = [r \in Resources |->
                          IF r \in {"sock", "sem", "mutex", "mem"}
                          THEN rel[r] + 1 ELSE rel[r]]
       ELSE /\ rel' = [r \in Resources |->
                          IF r \in {"sem", "mutex", "mem"}
                          THEN rel[r] + 1 ELSE rel[r]]
            /\ UNCHANGED <<send_buf, torn, open>>
    /\ cpc' = "destroyed"
    /\ UNCHANGED <<cbVars, state, socket, packet_id, subscriptions, mutex, pingVars,
                   appVars, running, clockVars, faults, wire,
                   rlog, rpc, ri, rsend, userVars, acq, sem, recv_buf>>

(* the loop test fails: sem_post(thread_exit_sem); thread_exit() *)
ReaderExit ==
    /\ rpc = "top"
    /\ ~running
    /\ sem' = sem + 1
    /\ rpc' = "exited"
    /\ UNCHANGED <<cbVars, state, socket, packet_id, subscriptions, mutex, send_buf,
                   pingVars, appVars, running, clockVars, open,
                   faults, sinkVars, rlog, ri, rsend, userVars, cpc, acq, rel,
                   recv_buf>>

(* A call that was in flight when destroy freed the client goes on with     *)
(* freed memory and a destroyed mutex: whatever it returns, if it returns    *)
UserAfterFree(t) ==
    /\ cpc = "destroyed"
    /\ u[t].pc \in {"lock", "sending"}
    /\ \E ret \in {0, -1}, crash \in BOOLEAN :
          u' = [u EXCEPT ![t] = IF crash THEN [Returned(u[t], "none", ret) EXCEPT !.pc = "crashed"]
                                ELSE Returned(u[t], "none", ret)]
    /\ mutex' = IF mutex = t THEN NoOwner ELSE mutex
    /\ wire' = IF wire.by = t THEN NoChunk ELSE wire
    /\ UNCHANGED <<cbVars, state, socket, packet_id, subscriptions, send_buf, pingVars,
                   cfgVars, clockVars, open, faults, torn, rlog, rpc, ri, rsend,
                   opsLeft, recv_buf>>

LifeUser(t) ==
    \/ cpc = "created" /\ UserCall(t)
    \/ cpc \in {"created", "d_wait", "d_close"} /\ UserLockSend(t)
    \/ cpc \in {"created", "d_wait", "d_close"} /\ UserSendEnd(t)
    \/ UserAfterFree(t)

Next == ReaderStep \/ \E t \in Users : User(t)

Spec == Init /\ [][Next]_vars

SpecWrap == InitWrap /\ [][Next]_vars

SpecCb == InitCb /\ [][Next]_vars

(* With keepalive 0 the thread pings, and can lose the link, on every       *)
(* iteration without the clock advancing: the record of its sends is kept   *)
(* to MaxLog entries, and it reconnects while packet_id is below MaxPid     *)
MaxLog == 3

MaxPid == 4

ZeroPingSend == ReaderPingSend /\ Len(rlog) < MaxLog

ZeroConnect == ReaderConnect /\ packet_id < MaxPid

ZeroReaderStep ==
    \/ ZeroConnect \/ ReaderConnectSend \/ ReaderConnectSent \/ ReaderConnack
    \/ ReaderResubSend \/ ReaderResubSent \/ ReaderReconnected
    \/ ReaderPingTimeout \/ ZeroPingSend \/ ReaderPingSent
    \/ ReaderRecv \/ ReaderRecvError

ZeroNext == ZeroReaderStep \/ \E t \in Users : User(t)

SpecZero == InitZero /\ [][ZeroNext]_vars

SpecLate == InitLate /\ [][Next]_vars

SpecAny == InitAny /\ [][Next]_vars

SpecFull == InitFull /\ [][Next]_vars

(* The receive thread keeps running, and a send that was started returns. *)
Fairness == WF_vars(ReaderStep) /\ \A t \in Users : WF_vars(UserSendEnd(t))

FairSpec == Spec /\ Fairness

(* The client from before mqtt_client_create to after mqtt_client_destroy *)
LifeReaderStep == ReaderStep \/ ReaderExit

DestroyProceeds == DestroyJoin \/ DestroyRelease

LifeNext ==
    \/ Create
    \/ DestroyBegin \/ DestroyProceeds
    \/ LifeReaderStep
    \/ \E t \in Users : LifeUser(t)

(* Threads that run keep running; whether and when the application calls   *)
(* create, publish, subscribe and destroy is up to it.                       *)
LifeFairness ==
    /\ WF_vars(LifeReaderStep)
    /\ WF_vars(DestroyProceeds)
    /\ \A t \in Users : WF_vars(UserSendEnd(t) /\ cpc # "destroyed")

LifeSpec == InitLife /\ [][LifeNext]_vars /\ LifeFairness

(* The remaining-length codec by itself: the values around every change of *)
(* the encoded length, each encoded and then decoded                         *)
RLSpread == 8
RLEdges == {0, MQTT_BYTE_MULTIPLIER, MQTT_BYTE_MULTIPLIER * MQTT_BYTE_MULTIPLIER,
            MQTT_BYTE_MULTIPLIER * MQTT_BYTE_MULTIPLIER * MQTT_BYTE_MULTIPLIER,
            MaxRemainingLength + 1}
RLValues == {v \in UNION {(e - RLSpread)..(e + RLSpread) : e \in RLEdges} : v >= 0}

InitCodec ==
    /\ NotCreated /\ SmallCalls /\ NoCallback
    /\ \E v \in RLValues : rl = Codec("input", v, <<>>, FALSE, NoDecode)

(* rem_len = encode_remaining_length(rem_buf, remaining) into the four      *)
(* bytes of rem_buf: a fifth byte is written past the array, after which     *)
(* the call returns 5 or the program has crashed                             *)
CodecEncode ==
    /\ rl.phase = "input"
    /\ LET bytes == encode_remaining_length(rl.v)
       IN IF Len(bytes) <= MQTT_REMAINING_LENGTH_MAX
          THEN rl' = Codec("encoded", rl.v, bytes, FALSE, NoDecode)
          ELSE \E crashed \in BOOLEAN :
                  rl' = Codec("encoded", rl.v, bytes, crashed, NoDecode)
    /\ UNCHANGED <<state, socket, packet_id, subscriptions, running, mutex,
                   pingVars, send_buf, keepalive, appTopics, appLens, appQos,
                   msg_cb, clockVars, open, faults, sinkVars, rlog, rpc, ri,
                   rsend, userVars, cpc, acq, rel, sem, recv_buf, cbVars>>

(* decode_remaining_length on the bytes the encoder produced *)
CodecDecode ==
    /\ rl.phase = "encoded"
    /\ ~rl.crashed
    /\ rl' = [rl EXCEPT !.phase = "decoded", !.dec = decode_remaining_length(rl.bytes)]
    /\ UNCHANGED <<state, socket, packet_id, subscriptions, running, mutex,
                   pingVars, send_buf, keepalive, appTopics, appLens, appQos,
                   msg_cb, clockVars, open, faults, sinkVars, rlog, rpc, ri,
                   rsend, userVars, cpc, acq, rel, sem, recv_buf, cbVars>>

CodecNext == CodecEncode \/ CodecDecode

CodecSpec == InitCodec /\ [][CodecNext]_vars

(* The PUBLISH codec by itself, byte by byte: pack_publish writes a packet   *)
(* and mqtt_handle_publish reads it as the receive thread does                *)
Rep(b, n) == [i \in 1..n |-> b]
Ramp(n) == [i \in 1..n |-> (i * 37) % UINT8_RANGE]

(* pack_publish, as the bytes from buf[0] to buf[pos - 1] *)
pack_publish_bytes(topic, payload, qos, pid) ==
    LET topic_len == Len(topic)
        remaining == 2 + topic_len + Len(payload) + (IF qos > 0 THEN 2 ELSE 0)
    IN <<PublishHeader(qos)>>
         \o encode_remaining_length(remaining)
         \o <<(topic_len \div UINT8_RANGE) % UINT8_RANGE, topic_len % UINT8_RANGE>>
         \o topic
         \o (IF qos > 0
             THEN <<(pid \div UINT8_RANGE) % UINT8_RANGE, pid % UINT8_RANGE>>
             ELSE <<>>)
         \o payload

NotCalled == [called |-> FALSE, topic |-> <<>>, payload |-> <<>>, plen |-> 0, qos |-> 0]

(* mqtt_handle_publish that takes the payload to start right after the topic *)
handle_publish_bytes_no_id(buf, len) ==
    LET offset == 1 + decode_remaining_length(Tail(buf)).count
        topic_len == buf[offset + 1] * UINT8_RANGE + buf[offset + 2]
        start == offset + 2 + topic_len
    IN IF topic_len >= MQTT_TOPIC_BUFFER_SIZE
       THEN NotCalled
       ELSE [called |-> TRUE,
             topic |-> SubSeq(buf, offset + 3, offset + 2 + topic_len),
             payload |-> SubSeq(buf, start + 1, len),
             plen |-> len - start,
             qos |-> (buf[1] \div 2) % 4]

(* mqtt_handle_publish that tests topic_len against the size of recv_buf *)
handle_publish_bytes_wide_topic(buf, len) ==
    LET offset == 1 + decode_remaining_length(Tail(buf)).count
        topic_len == buf[offset + 1] * UINT8_RANGE + buf[offset + 2]
        qos == (buf[1] \div 2) % 4
        start == offset + 2 + topic_len + (IF qos > 0 THEN 2 ELSE 0)
    IN IF topic_len >= MQTT_MAX_PACKET_SIZE - MQTT_TOPIC_BUFFER_SIZE
       THEN NotCalled
       ELSE [called |-> TRUE,
             topic |-> SubSeq(buf, offset + 3, offset + 2 + topic_len),
             payload |-> SubSeq(buf, start + 1, len),
             plen |-> len - start,
             qos |-> qos]

(* mqtt_handle_publish with a callback: what it passes to msg_cb, and the    *)
(* qos it has decoded, from the len bytes of recv_buf.  plen is len - offset *)
(* before its conversion to size_t: a negative value is passed as that value *)
(* plus the range of size_t.                                                 *)
handle_publish_bytes(buf, len) ==
    LET offset == 1 + decode_remaining_length(Tail(buf)).count
        topic_len == buf[offset + 1] * UINT8_RANGE + buf[offset + 2]
        qos == (buf[1] \div 2) % 4
        start == offset + 2 + topic_len + (IF qos > 0 THEN 2 ELSE 0)
    IN IF topic_len >= MQTT_TOPIC_BUFFER_SIZE
       THEN NotCalled
       ELSE [called |-> TRUE,
             topic |-> SubSeq(buf, offset + 3, offset + 2 + topic_len),
             payload |-> SubSeq(buf, start + 1, len),
             plen |-> len - start,
             qos |-> qos]

TopicLens == {0, 1, 2, MQTT_TOPIC_BUFFER_SIZE - 2, MQTT_TOPIC_BUFFER_SIZE - 1,
              MQTT_TOPIC_BUFFER_SIZE, MQTT_TOPIC_BUFFER_SIZE + 1}
PayloadSizes == {0, 1, 3, 130, 870, 890, 892}
PacketIds == {1, 258}

PubCodec(phase, topic, payload, qos, pid, buf, out) ==
    [phase |-> phase, topic |-> topic, payload |-> payload, qos |-> qos,
     pid |-> pid, buf |-> buf, out |-> out]

(* the calls of pack_publish whose packet fits the send buffer *)
InitPubCodec ==
    /\ NotCreated /\ SmallCalls /\ NoCallback
    /\ \E tl \in TopicLens, pl \in PayloadSizes, qos \in QosChoices, pid \in PacketIds :
          /\ PublishLen(Topic(97, tl), pl, qos) <= MQTT_MAX_PACKET_SIZE
          /\ rl = PubCodec("input", Rep(97, tl), Ramp(pl), qos, pid, <<>>, NotCalled)

PubEncode ==
    /\ rl.phase = "input"
    /\ rl' = [rl EXCEPT !.phase = "encoded",
                        !.buf = pack_publish_bytes(rl.topic, rl.payload, rl.qos, rl.pid)]
    /\ UNCHANGED <<state, socket, packet_id, subscriptions, running, mutex,
                   pingVars, send_buf, keepalive, appTopics, appLens, appQos,
                   msg_cb, clockVars, open, faults, sinkVars, rlog, rpc, ri,
                   rsend, userVars, cpc, acq, rel, sem, recv_buf, cbVars>>

(* the packet arrives by itself: net->recv returns its length *)
PubDecode ==
    /\ rl.phase = "encoded"
    /\ rl' = [rl EXCEPT !.phase = "decoded",
                        !.out = handle_publish_bytes(rl.buf, Len(rl.buf))]
    /\ UNCHANGED <<state, socket, packet_id, subscriptions, running, mutex,
                   pingVars, send_buf, keepalive, appTopics, appLens, appQos,
                   msg_cb, clockVars, open, faults, sinkVars, rlog, rpc, ri,
                   rsend, userVars, cpc, acq, rel, sem, recv_buf, cbVars>>

PubCodecNext == PubEncode \/ PubDecode

PubCodecSpec == InitPubCodec /\ [][PubCodecNext]_vars

----------------------------------------------------------------------------
(* The receive loop while Connected, on the bytes that net->recv delivers *)

MQTT_RECV_BUF_SIZE == 1024
MQTT_PINGRESP == 13

(* recv_buf, the length the last net->recv returned, and what                *)
(* mqtt_handle_publish passed to msg_cb for it                               *)
InBuf(buf, len, out) == [phase |-> "in", buf |-> buf, len |-> len, out |-> out]

(* What one read can deliver: a PUBLISH of QoS 0 and one of QoS 1, a         *)
(* PINGRESP, a PUBLISH whose remaining length has four continuation bytes,   *)
(* one with a topic of 128 bytes, one cut off inside its topic and one of    *)
(* QoS 1 cut off before its packet identifier                                *)
GoodPublish0 == pack_publish_bytes(<<97>>, <<1, 2>>, 0, 1)
GoodPublish1 == pack_publish_bytes(<<98>>, <<3>>, 1, 258)
PingrespBytes == <<MQTT_PINGRESP * 16, 0>>
MalformedPublish == <<PublishHeader(0), 128, 128, 128, 128, 0, 1, 97, 7>>
LongTopicPublish == pack_publish_bytes(Rep(97, MQTT_TOPIC_BUFFER_SIZE), <<7>>, 0, 1)
CutInTopic == <<PublishHeader(0), 2, 0, 5>>
CutBeforeId == <<PublishHeader(1), 3, 0, 1, 97>>

InboundBytes == {GoodPublish0, GoodPublish1, PingrespBytes, MalformedPublish,
                 LongTopicPublish, CutInTopic, CutBeforeId}

(* recv_buf after net->recv has written bytes at its start *)
RecvInto(buf, bytes) == bytes \o SubSeq(buf, Len(bytes) + 1, Len(buf))

(* create leaves the CONNACK in recv_buf, which memset had cleared *)
InitIn ==
    /\ CreatedClient
    /\ appLens = PayloadLens /\ appQos = {0}
    /\ msg_cb = TRUE /\ inLeft = MaxInbound /\ arrived = <<>> /\ cblog = <<>>
    /\ rl = InBuf(RecvInto(Rep(0, MQTT_RECV_BUF_SIZE), <<32, 2, 0, 0>>), 4, NotCalled)
    /\ packet_id = MQTT_INITIAL_PACKET_ID + 1
    /\ subscriptions = <<[topic |-> TopicA, qos |-> 0]>>
    /\ send_buf = pack_subscribe(TopicA, 0, MQTT_INITIAL_PACKET_ID)
    /\ appTopics = {}

(* net->recv returns len > 0 bytes: PINGRESP records the time and clears the *)
(* pending flag, PUBLISH goes to mqtt_handle_publish, the loop continues     *)
ByteRecv ==
    /\ InRecv
    /\ socket \in open
    /\ inLeft > 0
    /\ inLeft' = inLeft - 1
    /\ \E bytes \in InboundBytes :
          LET buf == RecvInto(rl.buf, bytes)
              len == Len(bytes)
              type == buf[1] \div 16
              out == IF type = MQTT_PUBLISH /\ msg_cb
                     THEN handle_publish_bytes(buf, len)
                     ELSE NotCalled
          IN /\ rl' = InBuf(buf, len, out)
             /\ cblog' = IF out.called
                         THEN Append(cblog, [topic |-> out.topic, plen |-> out.plen,
                                             owner |-> mutex])
                         ELSE cblog
             /\ IF type = MQTT_PINGRESP
                THEN /\ last_ping_time' = now
                     /\ waiting_pingresp' = FALSE
                ELSE UNCHANGED <<last_ping_time, waiting_pingresp>>
    /\ rpc' = "top"
    /\ UNCHANGED <<recv_buf, state, socket, packet_id, subscriptions, mutex, send_buf,
                   open, faults, keepalive, appTopics, appLens, appQos, msg_cb,
                   running, cpc, acq, rel, sem, arrived, ping_sent_time, clockVars,
                   sinkVars, rlog, ri, rsend, userVars>>

(* net->recv returns 0 after the timeout *)
QuietRecv == ReaderRecvOf({})

ConnectedStep ==
    \/ ReaderPingTimeout \/ ReaderPingSend \/ ReaderPingSent
    \/ ByteRecv \/ QuietRecv \/ ReaderRecvError

SpecIn == InitIn /\ [][ConnectedStep]_vars

(* The same client with a broker that never sends a PINGRESP *)
SilentRecv == ReaderRecvOf(RecvTypes \ {"PINGRESP"})

SilentReaderStep ==
    \/ ReaderConnect \/ ReaderConnectSend \/ ReaderConnectSent \/ ReaderConnack
    \/ ReaderResubSend \/ ReaderResubSent \/ ReaderReconnected
    \/ ReaderPingTimeout \/ ReaderPingSend \/ ReaderPingSent
    \/ SilentRecv \/ ReaderRecvError

SilentNext == SilentReaderStep \/ \E t \in Users : User(t)

SilentSpec ==
    /\ Init /\ [][SilentNext]_vars
    /\ WF_vars(SilentReaderStep) /\ \A t \in Users : WF_vars(UserSendEnd(t))

(* The client with a callback and a broker that answers every PINGREQ at    *)
(* once: while waiting_pingresp is set the PINGRESP is in the transport,     *)
(* behind the PUBLISH packets that arrived before it, so net->recv does not  *)
(* time out.  The callback takes time.                                       *)
CallbackTimes == {0, MQTT_MS_PER_SECOND}

PromptRecv ==
    /\ InRecv
    /\ socket \in open
    /\ \/ /\ ~waiting_pingresp
          /\ now' = NowAfter(MQTT_RECV_TIMEOUT_MS)
          /\ ticks' = ticks + Advance(MQTT_RECV_TIMEOUT_MS)
          /\ UNCHANGED <<last_ping_time, waiting_pingresp, cbVars>>
       \/ /\ waiting_pingresp
          /\ last_ping_time' = now
          /\ waiting_pingresp' = FALSE
          /\ UNCHANGED <<clockVars, cbVars>>
       \/ /\ msg_cb
          /\ inLeft > 0
          /\ inLeft' = inLeft - 1
          /\ \E read \in {<<InA>>, <<InB>>}, d \in CallbackTimes :
                /\ arrived' = arrived \o read
                /\ cblog' = cblog \o handle_publish(read, msg_cb, mutex)
                /\ now' = NowAfter(d)
                /\ ticks' = ticks + Advance(d)
          /\ UNCHANGED <<last_ping_time, waiting_pingresp>>
    /\ rpc' = "top"
    /\ UNCHANGED <<recv_buf, state, socket, packet_id, subscriptions, mutex, send_buf,
                   open, faults, cfgVars, ping_sent_time, sinkVars, rlog, ri,
                   rsend, userVars>>

PromptReaderStep ==
    \/ ReaderConnect \/ ReaderConnectSend \/ ReaderConnectSent \/ ReaderConnack
    \/ ReaderResubSend \/ ReaderResubSent \/ ReaderReconnected
    \/ ReaderPingTimeout \/ ReaderPingSend \/ ReaderPingSent
    \/ PromptRecv \/ ReaderRecvError

PromptNext == PromptReaderStep \/ \E t \in Users : User(t)

PromptSpec == InitCb /\ [][PromptNext]_vars

----------------------------------------------------------------------------
(* The receive thread with the assignments of mqtt_try_reconnect's success   *)
(* path and of the PINGRESP branch taken one statement group at a time       *)

(* how long net->recv waits before it returns the PINGRESP *)
PingrespWaits == {0, ClockStep}

(* state = CONNECTED;  last_ping_time = get_time_ms() *)
StepReconnected ==
    /\ rpc = "rc_sub"
    /\ ResubDone(ri, Len(subscriptions))
    /\ state' = MQTT_STATE_CONNECTED
    /\ last_ping_time' = now
    /\ rpc' = "rc_clear"
    /\ UNCHANGED <<cbVars, recv_buf, socket, packet_id, subscriptions, send_buf, open, faults,
                   cfgVars, ping_sent_time, waiting_pingresp, mutex, clockVars, sinkVars,
                   rlog, ri, rsend, userVars>>

(* waiting_pingresp = 0;  mutex_unlock;  return 0 *)
StepReconnectedClear ==
    /\ rpc = "rc_clear"
    /\ waiting_pingresp' = FALSE
    /\ mutex' = NoOwner
    /\ rpc' = "top"
    /\ UNCHANGED <<cbVars, recv_buf, state, socket, packet_id, subscriptions, send_buf, open,
                   faults, cfgVars, last_ping_time, ping_sent_time, clockVars, sinkVars,
                   rlog, ri, rsend, userVars>>

(* net->recv returns a PINGRESP;  last_ping_time = get_time_ms() *)
StepPingresp ==
    /\ InRecv
    /\ socket \in open
    /\ \E d \in PingrespWaits :
          /\ now' = NowAfter(d)
          /\ ticks' = ticks + Advance(d)
          /\ last_ping_time' = NowAfter(d)
    /\ rpc' = "pr_clear"
    /\ UNCHANGED <<cbVars, recv_buf, state, socket, packet_id, subscriptions, mutex, send_buf,
                   open, faults, cfgVars, ping_sent_time, waiting_pingresp, sinkVars,
                   rlog, ri, rsend, userVars>>

(* waiting_pingresp = 0;  continue *)
StepPingrespClear ==
    /\ rpc = "pr_clear"
    /\ waiting_pingresp' = FALSE
    /\ rpc' = "top"
    /\ UNCHANGED <<cbVars, recv_buf, state, socket, packet_id, subscriptions, mutex, send_buf,
                   open, faults, cfgVars, last_ping_time, ping_sent_time, clockVars,
                   sinkVars, rlog, ri, rsend, userVars>>

(* net->recv returns 0, or a packet that is not a PINGRESP *)
OtherRecv == ReaderRecvOf({"PUBLISH", "SUBACK"})

StepsReaderStep ==
    \/ ReaderConnect \/ ReaderConnectSend \/ ReaderConnectSent \/ ReaderConnack
    \/ ReaderResubSend \/ ReaderResubSent \/ StepReconnected \/ StepReconnectedClear
    \/ ReaderPingTimeout \/ ReaderPingSend \/ ReaderPingSent
    \/ OtherRecv \/ StepPingresp \/ StepPingrespClear \/ ReaderRecvError

StepsNext == StepsReaderStep \/ \E t \in Users : User(t)

SpecSteps == Init /\ [][StepsNext]_vars

----------------------------------------------------------------------------
(* Properties *)

(* the threads that are inside net->send *)
Sending ==
    {t \in Users : u[t].pc = "sending"}
        \cup (IF rpc \in {"rc_sending", "rc_sub_sending", "ping_sending"}
              THEN {Reader} ELSE {})

(* C1: on a live client every packet reaches the transport whole: no send   *)
(* of publish, subscribe, the PINGREQ or the reconnect sequence begins or    *)
(* ends while another packet is being written, and a thread inside net->send *)
(* is the holder of the send mutex.                                          *)
C1_PacketsNeverInterleave ==
    /\ ~torn
    /\ \A t \in Sending : mutex = t
    /\ Cardinality(Sending) <= 1

(* a publish is being written while the other user thread waits for the     *)
(* mutex and the receive thread has a PINGREQ due                            *)
C1_Contention ==
    /\ \E t \in Users : u[t].pc = "sending" /\ u[t].out = "full" /\ wire # NoChunk
    /\ \E t \in Users : u[t].pc = "lock"
    /\ AtTop(MQTT_STATE_CONNECTED) /\ PingDecision = "ping"

(* the log holds CONNECT and then one SUBSCRIBE per entry, in entry order *)
Resubscribed(log, subs) ==
    /\ Len(log) = Len(subs) + 1
    /\ log[1].type = "CONNECT"
    /\ \A i \in 1..Len(subs) :
          /\ log[i + 1].type = "SUBSCRIBE"
          /\ log[i + 1].topic = subs[i].topic
          /\ log[i + 1].qos = subs[i].qos

(* C2: whenever the state goes from Disconnected to Connected, the receive  *)
(* thread has written on the new connection the CONNECT and after it exactly *)
(* one SUBSCRIBE for every registry entry, in insertion order, each with the *)
(* stored QoS.                                                               *)
C2_ResubscribeBeforeConnected ==
    [][(state = MQTT_STATE_DISCONNECTED /\ state' = MQTT_STATE_CONNECTED)
          => Resubscribed(rlog', subscriptions')]_vars

(* a reconnect that resubscribed two entries has completed *)
C2_TwoResubscribed ==
    /\ state = MQTT_STATE_CONNECTED
    /\ Len(subscriptions) = 2
    /\ Len(rlog) = 3

(* C3: while the client runs and is Disconnected the receive thread keeps   *)
(* retrying: once the transport no longer fails, the client becomes          *)
(* Connected.                                                                *)
C3_RetryUntilConnected ==
    (state = MQTT_STATE_DISCONNECTED /\ running /\ faults = 0)
        ~> (state = MQTT_STATE_CONNECTED)

(* an attempt connected, failed in the send of CONNECT, closed the handle   *)
(* and slept; the thread is about to retry on a transport that is now good   *)
C3_RetryPending ==
    /\ AtTop(MQTT_STATE_DISCONNECTED)
    /\ faults = 0
    /\ socket = NULL
    /\ rlog = <<>>
    /\ ticks > 0

(* C4: a failed or short send of a PUBLISH or SUBSCRIBE by a user thread    *)
(* leaves the client Disconnected with the transport handle closed.          *)
C4_SendFailureDisconnects ==
    [][\A t \in Users :
          (u[t].pc = "sending" /\ u'[t].pc = "returned" /\ u'[t].out # "full")
              => (state' = MQTT_STATE_DISCONNECTED /\ u[t].h \notin open')]_vars

(* C5: a returned publish or subscribe gave 0 exactly when its send wrote   *)
(* the whole packet, and -1 otherwise.                                       *)
C5_ZeroIffWholeSend ==
    \A t \in Users :
        u[t].pc = "returned"
            => /\ u[t].ret \in {0, -1}
               /\ u[t].ret = 0 <=> u[t].out = "full"

(* a call whose send was short has returned -1 *)
C5_ShortSendReturned ==
    \E t \in Users : u[t].pc = "returned" /\ u[t].out = "short" /\ u[t].ret = -1

(* C6: a publish or subscribe call that observes a state other than         *)
(* Connected returns -1 and does not take the mutex, write to the transport, *)
(* consume a packet identifier or change the registry.                       *)
C6_NotConnectedNoEffect ==
    [][\A t \in Users :
          (opsLeft' < opsLeft /\ u'[t] # u[t] /\ state # MQTT_STATE_CONNECTED)
              => /\ u'[t].pc = "returned"
                 /\ u'[t].ret = -1
                 /\ UNCHANGED <<mutex, wire, torn, packet_id, subscriptions,
                                send_buf, socket, open>>]_vars

(* a subscribe on a client handle has returned without a send while the     *)
(* client is Disconnected                                                    *)
C6_RejectedSubscribe ==
    /\ state = MQTT_STATE_DISCONNECTED
    /\ \E t \in Users :
          u[t].pc = "returned" /\ u[t].op = "sub" /\ u[t].out = "none" /\ u[t].ret = -1

(* C7: no packet that carries an identifier is written with identifier 0.   *)
C7_IdentifierNeverZero ==
    (wire # NoChunk /\ CarriesId(wire.pkt)) => wire.pkt.pid # 0

(* no two registry entries hold the same topic filter *)
NoDuplicateTopics(subs) ==
    \A i, j \in 1..Len(subs) : i # j => subs[i].topic # subs[j].topic

(* C8 as stated: the registry never holds two entries with the same filter, *)
(* whatever the lengths of the filters passed to subscribe.                  *)
C8_NoDuplicatesAnyLength == NoDuplicateTopics(subscriptions)

(* C8: two registry entries hold the same filter only if it is the 127-byte *)
(* truncation of a longer filter that was passed to subscribe; a filter of   *)
(* at most 127 bytes is stored once however often it is subscribed.          *)
C8_DuplicatesOnlyTruncated ==
    \A i, j \in 1..Len(subscriptions) :
        (i # j /\ subscriptions[i].topic = subscriptions[j].topic)
            => \E t \in appTopics :
                  /\ t.len > MQTT_TOPIC_FIELD_SIZE - 1
                  /\ StoredTopic(t) = subscriptions[i].topic

(* both user threads subscribed the same short filter, both sends were      *)
(* whole, and the registry holds it once                                     *)
C8_RepeatStoredOnce ==
    /\ \A t \in Users :
          /\ u[t].pc = "returned" /\ u[t].op = "sub" /\ u[t].out = "full"
          /\ u[t].topic = TopicA
    /\ Len(subscriptions) = 1

(* C9: the registry never holds more than MQTT_MAX_SUBSCRIPTIONS entries; a *)
(* subscribe for a further topic on a full registry whose send is whole      *)
(* returns 0 and leaves the registry as it was, and a later reconnect        *)
(* resubscribes registry entries only.                                       *)
C9_NinthNotRegistered ==
    [][/\ Len(subscriptions') <= MQTT_MAX_SUBSCRIPTIONS
       /\ \A t \in Users :
             (/\ u[t].pc = "sending" /\ u[t].op = "sub"
              /\ u'[t].pc = "returned" /\ u'[t].out = "full"
              /\ Len(subscriptions) = MQTT_MAX_SUBSCRIPTIONS)
                 => (u'[t].ret = 0 /\ subscriptions' = subscriptions)
       /\ (state = MQTT_STATE_DISCONNECTED /\ state' = MQTT_STATE_CONNECTED)
             => Len(rlog') <= MQTT_MAX_SUBSCRIPTIONS + 1]_vars

(* the ninth distinct subscribe returned 0, its topic is not in the full    *)
(* registry, and a reconnect has since resubscribed the eight entries        *)
C9_NinthReturnedZero ==
    /\ Len(subscriptions) = MQTT_MAX_SUBSCRIPTIONS
    /\ \E t \in Users :
          /\ u[t].pc = "returned" /\ u[t].op = "sub"
          /\ u[t].out = "full" /\ u[t].ret = 0
          /\ \A i \in 1..Len(subscriptions) : subscriptions[i].topic # u[t].topic
    /\ state = MQTT_STATE_CONNECTED
    /\ Len(rlog) = MQTT_MAX_SUBSCRIPTIONS + 1

(* C10: subscribe changes the registry only when its send wrote the whole   *)
(* packet; after a failed or short send the registry is as before and the    *)
(* call returns -1.                                                          *)
C10_RegisterOnlyAfterWholeSend ==
    [][/\ \A t \in Users :
             (/\ u[t].pc = "sending" /\ u[t].op = "sub"
              /\ u'[t].pc = "returned" /\ u'[t].out # "full")
                 => (subscriptions' = subscriptions /\ u'[t].ret = -1)
       /\ subscriptions' # subscriptions
             => \E t \in Users :
                   /\ u[t].pc = "sending" /\ u[t].op = "sub"
                   /\ u'[t].pc = "returned" /\ u'[t].out = "full"]_vars

(* the first subscribe failed in its send: -1 and an empty registry *)
C10_FailedSubscribe ==
    /\ \E t \in Users :
          /\ u[t].pc = "returned" /\ u[t].op = "sub"
          /\ u[t].out \in {"short", "neg"} /\ u[t].ret = -1
    /\ subscriptions = <<>>
    /\ opsLeft = MaxOps - 1

(* a step of the receive thread out of the top of its loop *)
ReaderLeavesTop ==
    /\ rpc = "top"
    /\ <<state, socket, rpc, pingVars, clockVars>>'
          # <<state, socket, rpc, pingVars, clockVars>>

(* C11: with a broker that never answers the PINGREQ, the iteration of the  *)
(* receive thread that finds now - ping_sent_time >= K/2 makes the client    *)
(* Disconnected, closes the transport and clears waiting_pingresp; from      *)
(* Disconnected the next iteration is a reconnect attempt; and the           *)
(* disconnection eventually happens while the clock runs.                    *)
C11_SilentBrokerTimesOut ==
    /\ [][(ReaderLeavesTop /\ state = MQTT_STATE_CONNECTED /\ waiting_pingresp
             /\ U32AtLeast(Elapsed(now, ping_sent_time), KeepaliveThreshold(keepalive)))
            => /\ state' = MQTT_STATE_DISCONNECTED
               /\ socket' = NULL /\ socket \notin open'
               /\ ~waiting_pingresp']_vars
    /\ [][(ReaderLeavesTop /\ state = MQTT_STATE_DISCONNECTED)
            => (rpc' = "rc_lock" \/ (socket' = NULL /\ faults' < faults))]_vars
    /\ (state = MQTT_STATE_CONNECTED /\ waiting_pingresp /\ ticks < MaxTicks)
          ~> (state = MQTT_STATE_DISCONNECTED)

(* the keepalive timeout has disconnected the client: a PINGREQ was sent,   *)
(* no fault was injected, and the handle is closed                           *)
C11_TimedOut ==
    /\ AtTop(MQTT_STATE_DISCONNECTED)
    /\ ~waiting_pingresp
    /\ ping_sent_time # U32(0)
    /\ socket = NULL /\ open = {}
    /\ faults = MaxFaults

(* C12: whenever create has returned null, every resource it had acquired  *)
(* has been released exactly once and nothing else was released, no          *)
(* transport handle is open and no receive thread exists.                    *)
C12_CreateFailureReleasesAll ==
    cpc = "failed"
        => /\ \A r \in Resources : rel[r] = acq[r] /\ acq[r] <= 1
           /\ open = {}
           /\ acq["thread"] = 0 /\ rpc = "none"

(* create failed on a refused CONNACK, after it had opened the transport *)
C12_FailedAfterConnect ==
    /\ cpc = "failed"
    /\ acq["sock"] = 1 /\ rel["sock"] = 1
    /\ recv_buf = Reply(4, "CONNACK", 5)

(* a reply of at least four bytes, of type CONNACK, with return code 0 *)
AcceptedReply(r) == r.len >= 4 /\ r.type = "CONNACK" /\ r.rc = 0

(* C13: the state becomes Connected, in create and in a reconnect, only on  *)
(* a reply of at least 4 bytes of type CONNACK with return code 0; after any *)
(* other reply create returns null, and a reconnect closes the new handle,   *)
(* leaves client->socket NULL and the state Disconnected.                    *)
C13_ConnectedOnlyAfterConnack ==
    [][/\ (state # MQTT_STATE_CONNECTED /\ state' = MQTT_STATE_CONNECTED)
             => AcceptedReply(recv_buf')
       /\ (cpc = "start" /\ cpc' = "created") => AcceptedReply(recv_buf')
       /\ (rpc = "rc_recv" /\ rpc' # "rc_recv" /\ ~AcceptedReply(recv_buf'))
             => /\ state' = MQTT_STATE_DISCONNECTED
                /\ socket' = NULL /\ socket \notin open'
                /\ rpc' = "top"
       /\ (rpc = "rc_recv" /\ rpc' # "rc_recv" /\ AcceptedReply(recv_buf'))
             => rpc' = "rc_sub"]_vars

(* a reconnect sent CONNECT, was refused with return code 5 and gave up *)
C13_ReconnectRefused ==
    /\ cpc = "created"
    /\ AtTop(MQTT_STATE_DISCONNECTED)
    /\ recv_buf = Reply(4, "CONNACK", 5)
    /\ socket = NULL /\ open = {}
    /\ Len(rlog) = 1

(* C14: once destroy has released the client, no publish or subscribe call  *)
(* is still in flight: none waits for or holds the mutex or is inside        *)
(* net->send with the client's buffer and handle.                            *)
C14_NoCallInFlightAfterDestroy ==
    cpc = "destroyed"
        => /\ \A t \in Users : u[t].pc \notin {"lock", "sending"}
           /\ mutex = NoOwner

(* C15: once running is cleared, the receive thread's next pass through the *)
(* top of its loop leaves the loop and posts the semaphore; the semaphore is *)
(* posted by nothing else and never twice; and destroy, which waits for it,  *)
(* returns.                                                                  *)
C15_ReaderExitsAndDestroyReturns ==
    /\ [][(ReaderLeavesTop /\ ~running) => (rpc' = "exited" /\ sem' = sem + 1)]_vars
    /\ [][sem' > sem => (rpc = "top" /\ ~running /\ rpc' = "exited" /\ sem' = 1)]_vars
    /\ (cpc = "d_wait") ~> (cpc = "destroyed" /\ rpc = "exited" /\ sem = 0)

(* destroy has returned for a client whose last reconnect attempt had       *)
(* failed: the receive thread exited from its reconnecting phase             *)
C15_DestroyedWhileReconnecting ==
    /\ cpc = "destroyed"
    /\ rpc = "exited"
    /\ state = MQTT_STATE_DISCONNECTED /\ socket = NULL
    /\ rel["sock"] = 0 /\ rel["thread"] = 1
    /\ rlog = <<>>

(* C20: a value up to 268435455 is encoded in 1 to 4 bytes and decoding     *)
(* those bytes consumes all of them and gives the value back; a larger value *)
(* is rejected by the encoder, which produces no fifth byte.                 *)
C20_RoundTripOrRejected ==
    /\ (rl.phase = "decoded" /\ rl.v <= MaxRemainingLength)
          => /\ Len(rl.bytes) \in 1..MQTT_REMAINING_LENGTH_MAX
             /\ rl.dec.count = Len(rl.bytes)
             /\ rl.dec.len = rl.v
    /\ (rl.phase \in {"encoded", "decoded"} /\ rl.v > MaxRemainingLength)
          => (rl.bytes = <<>> /\ ~rl.crashed)

(* C18: a publish whose encoded packet is longer than the 1024-byte send    *)
(* buffer writes nothing outside it: the receive buffer, the running flag,   *)
(* the registry, the phase and the transport handle are as they were.        *)
C18_OversizedPublishInBounds ==
    [][\A t \in Users :
          (/\ u[t].pc = "lock" /\ u'[t].pc = "sending" /\ u[t].op = "pub"
           /\ PublishLen(u[t].topic, u[t].plen, u[t].qos) > MQTT_MAX_PACKET_SIZE)
             => /\ recv_buf' = recv_buf
                /\ running' = running
                /\ subscriptions' = subscriptions
                /\ state' = state
                /\ socket' = socket]_vars

(* C19: a PUBLISH on the wire has QoS 0 or 1 whatever qos the caller passed, *)
(* and no PUBACK, PUBREC, PUBREL, PUBCOMP or UNSUBSCRIBE is ever written.    *)
C19_OnlyQos01OnTheWire ==
    wire # NoChunk
        => /\ wire.pkt.type = "PUBLISH" => wire.pkt.qos \in {0, 1}
           /\ wire.pkt.type \notin {"PUBACK", "PUBREC", "PUBREL", "PUBCOMP", "UNSUBSCRIBE"}

(* C16: whenever the message callback is invoked, the receive thread does   *)
(* not hold the send-mutex.                                                  *)
C16_CallbackWithoutMutex ==
    \A i \in 1..Len(cblog) : cblog[i].owner # Reader

(* a callback ran while a user thread was inside a send with the mutex, on a *)
(* client whose receive thread has taken and released the mutex for a ping   *)
C16_CallbackDuringUserSend ==
    /\ \E i \in 1..Len(cblog) : cblog[i].owner \in Users
    /\ waiting_pingresp

(* the PUBLISH packets received whose topic fits the 128-byte buffer *)
Deliverable(packets) ==
    SelectSeq(packets, LAMBDA p : p.topic.len < MQTT_TOPIC_BUFFER_SIZE)

(* C17: with a callback configured, the callbacks made are, in order, one    *)
(* for each PUBLISH received with a topic shorter than 128 bytes, each with  *)
(* that packet's topic and payload.                                          *)
C17_OneCallbackPerPublish ==
    msg_cb =>
        /\ Len(cblog) = Len(Deliverable(arrived))
        /\ \A i \in 1..Len(cblog) :
              /\ cblog[i].topic = Deliverable(arrived)[i].topic
              /\ cblog[i].plen = Deliverable(arrived)[i].plen

(* C22: a user thread's PUBLISH or SUBSCRIBE is handed to net->send only     *)
(* while the client is Connected and the handle is not NULL.                 *)
C22_SendOnlyWhileConnected ==
    [][\A t \in Users :
          (u[t].pc = "lock" /\ u'[t].pc = "sending")
             => (state = MQTT_STATE_CONNECTED /\ socket # NULL)]_vars

(* the receive thread is between net->connect and the acceptance of CONNACK *)
Handshaking == rpc \in {"rc_lock", "rc_sending", "rc_recv"}

(* C23: no packet of a user thread is written on a connection on which the   *)
(* CONNACK has not been accepted yet, so that CONNECT is the first packet.   *)
C23_ConnectFirstOnEveryConnection ==
    (wire # NoChunk /\ wire.by \in Users)
        => ~(Handshaking /\ wire.sock = socket)

(* C25: a Connected client has a transport handle. *)
C25_ConnectedHasHandle ==
    state = MQTT_STATE_CONNECTED => socket # NULL

(* Connected again on a new handle, after a reconnect that has repeated one  *)
(* subscription                                                              *)
C25_ReconnectedWithHandle ==
    /\ state = MQTT_STATE_CONNECTED /\ socket \in open
    /\ Len(rlog) = 2 /\ rlog[2].type = "SUBSCRIBE"

(* no PINGRESP is awaited and K/2 has passed since last_ping_time *)
PingDue ==
    /\ ~waiting_pingresp
    /\ U32AtLeast(Elapsed(now, last_ping_time), KeepaliveThreshold(keepalive))

(* C26: while Connected, an iteration of the receive thread sends PINGREQ    *)
(* exactly when no PINGRESP is awaited and now - last_ping_time >= K/2; a    *)
(* send that succeeds records ping_sent_time and sets waiting_pingresp, a    *)
(* send that fails does not; so no PINGREQ is sent while one is outstanding. *)
C26_PingExactlyWhenDue ==
    /\ [][(rpc = "top" /\ rpc' = "ping_sending")
             => (state = MQTT_STATE_CONNECTED /\ PingDue
                 /\ send_buf' = pack_pingreq /\ mutex' = Reader)]_vars
    /\ [][(ReaderLeavesTop /\ state = MQTT_STATE_CONNECTED /\ PingDue)
             => rpc' = "ping_sending"]_vars
    /\ [][(rpc = "ping_sending" /\ rpc' # rpc)
             => IF rpc' = "recv"
                THEN waiting_pingresp' /\ ping_sent_time' = now
                     /\ rsend.out = "full"
                ELSE ~waiting_pingresp' /\ ping_sent_time' = ping_sent_time]_vars
    /\ [](rpc = "ping_sending" => ~waiting_pingresp)

(* a PINGREQ went out whole after the interval had passed and is now awaited *)
C26_PingOutstanding ==
    /\ rpc = "recv" /\ waiting_pingresp
    /\ ping_sent_time = now /\ ticks > 0
    /\ state = MQTT_STATE_CONNECTED

(* net->recv has returned a negative value: a transport fault that is not   *)
(* the fault of a send                                                       *)
RecvFailed == InRecv /\ faults' < faults /\ wire' = wire /\ u' = u

(* C29: when net->recv returns a negative value while Connected, the receive *)
(* thread, having the mutex, makes the client Disconnected, closes the       *)
(* transport and sets the handle to NULL and makes no callback; from         *)
(* Disconnected its next iteration is a reconnect attempt; a recv that times *)
(* out changes no field of the client.                                       *)
C29_RecvErrorDisconnects ==
    /\ [][(RecvFailed /\ state = MQTT_STATE_CONNECTED)
             => /\ mutex = NoOwner /\ mutex' = NoOwner
                /\ state' = MQTT_STATE_DISCONNECTED
                /\ socket' = NULL /\ socket \notin open'
                /\ cbVars' = cbVars
                /\ rpc' = "top"]_vars
    /\ [][(ReaderLeavesTop /\ state = MQTT_STATE_DISCONNECTED /\ rpc' # "rc_lock")
             => (socket' = NULL /\ rpc' = "top" /\ faults' < faults)]_vars
    /\ [][(InRecv /\ ticks' > ticks)
             => UNCHANGED <<state, socket, open, packet_id, subscriptions, send_buf,
                            mutex, pingVars, recv_buf, cbVars>>]_vars

(* the client was disconnected by a failed recv after a callback was made    *)
C29_DisconnectedByRecv ==
    /\ AtTop(MQTT_STATE_DISCONNECTED) /\ socket = NULL /\ open = {}
    /\ faults = MaxFaults - 1 /\ ticks = 0
    /\ Len(cblog) = 1
    /\ \A t \in Users : u[t].pc = "idle"

(* C30: destroy writes DISCONNECT into the send buffer, closes the transport *)
(* and releases the client only after the receive thread has posted the      *)
(* semaphore; and from the post on the receive thread takes no step: no      *)
(* transport call and no access to a field of the client.                    *)
C30_DisconnectAfterReaderExit ==
    /\ [](cpc \in {"d_close", "destroyed"} => (rpc = "exited" /\ ~running))
    /\ [][(cpc # "destroyed" /\ cpc' = "destroyed")
             => (rpc = "exited" /\ cpc = "d_close")]_vars
    /\ [][(cpc # "destroyed" /\ cpc' = cpc /\ rpc = "exited")
             => open' = open]_vars
    /\ [][rpc = "exited"
             => UNCHANGED <<rpc, ri, rsend, rlog, state, socket, pingVars, clockVars,
                            recv_buf, cbVars>>]_vars

(* destroy has sent DISCONNECT on the handle of a Connected client and       *)
(* closed it, the receive thread having exited before                        *)
C30_DisconnectSentAfterExit ==
    /\ cpc = "destroyed" /\ rpc = "exited"
    /\ send_buf.type = "DISCONNECT"
    /\ state = MQTT_STATE_CONNECTED /\ socket # NULL /\ open = {}
    /\ rel["sock"] = 1

(* the client exists: create has returned it and destroy has not freed it *)
Alive == cpc \in {"created", "d_wait", "d_close"}

(* C27: after create has returned, the handle is never changed while another *)
(* thread holds the mutex, the send buffer and the registry are changed only *)
(* in a step that has the mutex, and the receive buffer is changed only by   *)
(* the receive thread reading a reply.                                       *)
C27_SharedFieldsUnderMutex ==
    [][Alive =>
          /\ socket' # socket => mutex \notin Users
          /\ (send_buf' # send_buf \/ subscriptions' # subscriptions)
                => (mutex # NoOwner \/ mutex' # NoOwner)
          /\ recv_buf' # recv_buf => rpc = "rc_recv"]_vars

(* C28: the receive thread does not hold the mutex while it is blocked in    *)
(* net->recv, for the CONNACK of a reconnect attempt or for a packet.        *)
C28_NoMutexWhileReceiving ==
    (rpc \in {"rc_recv", "recv"}) => mutex # Reader

(* C24: with a broker whose PINGRESP reaches the transport within K/2 of     *)
(* every PINGREQ, the keepalive check never makes the client Disconnected,   *)
(* whatever else arrives and however long the callback runs.                 *)
C24_NoTimeoutWithPromptBroker ==
    [][~(/\ rpc = "top" /\ state = MQTT_STATE_CONNECTED /\ waiting_pingresp
         /\ state' = MQTT_STATE_DISCONNECTED /\ ~waiting_pingresp')]_vars

(* the decoder gave back what the encoder was given *)
RoundTrip ==
    /\ rl.out.called
    /\ rl.out.topic = rl.topic
    /\ rl.out.payload = rl.payload
    /\ rl.out.qos = rl.qos

(* C21 as stated, for every topic whose packet fits the send buffer: the     *)
(* decoder gives back topic, payload and qos.                                *)
C21_RoundTripAnyTopic ==
    rl.phase = "decoded" => RoundTrip

(* C21: for qos 0 and 1 and a packet that fits in 1024 bytes, decoding the   *)
(* encoded PUBLISH as the receive thread does gives back the topic, the      *)
(* payload bytes and length and the qos when the topic is shorter than 128   *)
(* bytes; with a longer topic the packet is dropped and nothing is decoded.  *)
C21_RoundTripShortTopic ==
    rl.phase = "decoded"
        => /\ Len(rl.buf) = PublishLen(Topic(97, Len(rl.topic)), Len(rl.payload), rl.qos)
           /\ Len(rl.buf) <= MQTT_MAX_PACKET_SIZE
           /\ IF Len(rl.topic) < MQTT_TOPIC_BUFFER_SIZE
              THEN RoundTrip
              ELSE rl.out = NotCalled

(* a QoS 1 packet of exactly 1024 bytes with a 127-byte topic was decoded *)
C21_LargestPacketDecoded ==
    /\ rl.phase = "decoded"
    /\ Len(rl.buf) = MQTT_MAX_PACKET_SIZE
    /\ Len(rl.topic) = MQTT_TOPIC_BUFFER_SIZE - 1
    /\ rl.qos = 1
    /\ rl.out.called /\ Len(rl.out.payload) = Len(rl.payload)

(* C31: in the step that makes the client Connected, in create or at the end *)
(* of a reconnect, waiting_pingresp is false afterwards and last_ping_time   *)
(* is the time of the step; hence the keepalive check of a client that has   *)
(* just become Connected never finds a timeout.                              *)
C31_ConnectedStartsFresh ==
    /\ [][(state # MQTT_STATE_CONNECTED /\ state' = MQTT_STATE_CONNECTED)
             => (~waiting_pingresp' /\ last_ping_time' = now')]_vars
    /\ [][(state # MQTT_STATE_CONNECTED /\ state' = MQTT_STATE_CONNECTED)
             => PingDecision' # "timeout"]_vars

(* Connected again after a transport fault on a connection on which a        *)
(* PINGREQ had been sent                                                     *)
C31_ReconnectedAfterPing ==
    /\ cpc = "created" /\ AtTop(MQTT_STATE_CONNECTED)
    /\ ~waiting_pingresp /\ ping_sent_time # U32(0)
    /\ last_ping_time = now
    /\ faults = 0 /\ opsLeft = MaxOps
    /\ rlog = <<pack_connect>>

(* C36: a subscribe call for a topic filter that is in the registry sends    *)
(* its SUBSCRIBE with the qos of the call and leaves the registry as it is;  *)
(* the SUBSCRIBE of a reconnect carries the qos of the registry entry.       *)
C36_ResubscribeKeepsFirstQos ==
    /\ [][\A t \in Users :
             (/\ u[t].pc = "lock" /\ u'[t].pc = "sending" /\ u[t].op = "sub"
              /\ \E i \in 1..Len(subscriptions) : subscriptions[i].topic = u[t].topic)
                => (send_buf'.type = "SUBSCRIBE" /\ send_buf'.qos = u[t].qos
                    /\ send_buf'.topic = u[t].topic)]_vars
    /\ [][\A t \in Users :
             (/\ u[t].pc = "sending" /\ u'[t].pc = "returned" /\ u[t].op = "sub"
              /\ \E i \in 1..Len(subscriptions) : subscriptions[i].topic = u[t].topic)
                => subscriptions' = subscriptions]_vars
    /\ [][(rpc = "rc_sub" /\ rpc' = "rc_sub_sending")
             => (send_buf'.topic = subscriptions[ri].topic
                 /\ send_buf'.qos = subscriptions[ri].qos)]_vars

(* the topic was subscribed with qos 0 and then again with qos 1: the second *)
(* SUBSCRIBE went out whole, the call returned 0, the entry still has qos 0  *)
C36_SecondQosNotStored ==
    /\ subscriptions = <<[topic |-> TopicA, qos |-> 0]>>
    /\ send_buf = pack_subscribe(TopicA, 1, MQTT_INITIAL_PACKET_ID + 1)
    /\ \E t \in Users : /\ u[t].pc = "returned" /\ u[t].op = "sub" /\ u[t].ret = 0
                        /\ u[t].topic = TopicA
    /\ opsLeft = 0 /\ mutex = NoOwner

(* C37: the only handle that can be open is the one in client->socket, so a *)
(* new handle never replaces one that is still open; net->disconnect is      *)
(* called, by the receive thread or by destroy, only on a handle that is     *)
(* open; and once create has failed or destroy has returned none is open.    *)
C37_HandleClosedExactlyOnce ==
    /\ [](open \subseteq {socket} /\ NULL \notin open)
    /\ [](cpc \in {"start", "failed", "destroyed"} => open = {})
    /\ [][(socket' # socket /\ socket' # NULL) => (socket = NULL /\ open = {})]_vars
    /\ [][(socket # NULL /\ socket' = NULL)
             => (socket \in open /\ open' = open \ {socket})]_vars
    /\ [][(cpc = "d_close" /\ cpc' = "destroyed" /\ socket # NULL)
             => (socket \in open /\ open' = {})]_vars
    /\ [](rel["sock"] <= acq["sock"])

(* the first handle was closed by the receive thread after a fault, the      *)
(* handle of the reconnect by destroy                                        *)
C37_TwoHandlesBothClosed ==
    /\ cpc = "destroyed" /\ open = {}
    /\ state = MQTT_STATE_CONNECTED /\ socket # NULL
    /\ faults = 0 /\ opsLeft = MaxOps
    /\ rel["sock"] = 1

(* where the receive thread is between its mutex_lock and its mutex_unlock *)
ReaderHolds == rpc \in {"rc_sending", "rc_recv", "rc_sub", "rc_sub_sending", "ping_sending"}

(* C38: a thread holds the mutex exactly between the lock and the unlock of  *)
(* the path it is on, so it has released it when it returns; the mutex is    *)
(* taken only when no thread holds it; and a mutex that is held is released. *)
C38_MutexReleasedOnEveryPath ==
    /\ [](\A t \in Users : mutex = t <=> u[t].pc = "sending")
    /\ [](mutex = Reader <=> ReaderHolds)
    /\ [][(mutex' # mutex /\ mutex' # NoOwner) => mutex = NoOwner]_vars
    /\ (mutex # NoOwner) ~> (mutex = NoOwner)

(* a reconnect attempt was refused by the broker and has given the mutex     *)
(* back while a user thread is waiting for it                                *)
C38_ReleasedAfterRefusal ==
    /\ AtTop(MQTT_STATE_DISCONNECTED) /\ socket = NULL
    /\ recv_buf = Reply(4, "CONNACK", 5)
    /\ mutex = NoOwner
    /\ \E t \in Users : u[t].pc = "lock"

(* C39: with keepalive 0 the threshold is 0: a Connected iteration of the    *)
(* receive thread that is not awaiting a PINGRESP sends a PINGREQ, and one   *)
(* that is awaiting makes the client Disconnected and closes the transport.  *)
C39_KeepaliveZeroStillPings ==
    /\ [](KeepaliveThreshold(keepalive) = 0)
    /\ [][(ReaderLeavesTop /\ state = MQTT_STATE_CONNECTED /\ ~waiting_pingresp)
             => (rpc' = "ping_sending" /\ send_buf' = pack_pingreq)]_vars
    /\ [][(ReaderLeavesTop /\ state = MQTT_STATE_CONNECTED /\ waiting_pingresp)
             => /\ state' = MQTT_STATE_DISCONNECTED
                /\ socket' = NULL /\ socket \notin open'
                /\ ~waiting_pingresp']_vars

(* the link was declared dead at once: no time has passed and no transport   *)
(* call has failed, the read after the PINGREQ returned another packet       *)
C39_DeadWithoutDelay ==
    /\ keepalive = 0
    /\ AtTop(MQTT_STATE_DISCONNECTED) /\ socket = NULL /\ open = {}
    /\ faults = MaxFaults /\ ticks = 0
    /\ ~waiting_pingresp /\ send_buf = pack_pingreq

(* The milliseconds that have really passed since the clock read t, when t  *)
(* was read k steps after create: the run is ticks steps old.  -1 when t is *)
(* not a value the clock has had.                                           *)
TrueSince(t) ==
    IF \E k \in 0..ticks : U32Add(LateStart, k * ClockStep) = t
    THEN (ticks - (CHOOSE k \in 0..ticks : U32Add(LateStart, k * ClockStep) = t))
            * ClockStep
    ELSE -1

(* what mqtt_send_ping would decide on the time that has really passed *)
TrueDecision ==
    IF waiting_pingresp
    THEN IF TrueSince(ping_sent_time) >= KeepaliveThreshold(keepalive)
         THEN "timeout" ELSE "recv"
    ELSE IF TrueSince(last_ping_time) < KeepaliveThreshold(keepalive)
         THEN "recv" ELSE "ping"

(* C33: now - last_activity and now - ping_sent, computed in uint32_t, are  *)
(* the time that has really passed, also when the clock has wrapped between *)
(* the two readings, so that the PINGREQ and the timeout are decided as on  *)
(* the real time.                                                           *)
C33_ElapsedIsTrueElapsed ==
    /\ now = U32Add(LateStart, ticks * ClockStep)
    /\ TrueSince(last_ping_time) >= 0
    /\ Elapsed(now, last_ping_time) = U32(TrueSince(last_ping_time))
    /\ waiting_pingresp =>
          /\ TrueSince(ping_sent_time) >= 0
          /\ Elapsed(now, ping_sent_time) = U32(TrueSince(ping_sent_time))
    /\ PingDecision = TrueDecision

(* the PINGREQ went out before the wrap and its timeout is found after it *)
C33_TimeoutAcrossWrap ==
    /\ AtTop(MQTT_STATE_CONNECTED)
    /\ waiting_pingresp
    /\ ping_sent_time[1] = UINT16_RANGE - 1 /\ now[1] = 0
    /\ PingDecision = "timeout"

(* the remaining length of the packet in buf has four continuation bytes *)
FourContinuationBytes(buf) == \A i \in 2..(MQTT_REMAINING_LENGTH_MAX + 1) : buf[i] >= 128

(* the topic length that the packet in buf declares after its remaining length *)
DeclaredTopicLen(buf) ==
    LET n == CHOOSE i \in 2..(MQTT_REMAINING_LENGTH_MAX + 1) : buf[i] < 128
    IN buf[n + 1] * UINT8_RANGE + buf[n + 2]

(* C35: a read that delivers a PUBLISH whose remaining length has four       *)
(* continuation bytes, or whose topic is 128 bytes or longer, calls no       *)
(* callback and changes nothing of the client, and the thread is back at the *)
(* top of its loop, still Connected.                                         *)
C35_BadPublishDropped ==
    [][(/\ inLeft' < inLeft
        /\ rl'.buf[1] \div 16 = MQTT_PUBLISH
        /\ \/ FourContinuationBytes(rl'.buf)
           \/ DeclaredTopicLen(rl'.buf) >= MQTT_TOPIC_BUFFER_SIZE)
          => /\ ~rl'.out.called /\ cblog' = cblog
             /\ rpc' = "top" /\ state' = MQTT_STATE_CONNECTED /\ state = state'
             /\ UNCHANGED <<socket, open, packet_id, subscriptions, mutex, send_buf,
                            pingVars, running, sinkVars>>]_vars

(* both kinds of bad PUBLISH have been read, the one with the long topic     *)
(* first, and the thread is at the top of its loop                           *)
C35_BothKindsDropped ==
    /\ AtTop(MQTT_STATE_CONNECTED)
    /\ inLeft = 0 /\ cblog = <<>>
    /\ rl.len = Len(MalformedPublish)
    /\ SubSeq(rl.buf, 1, rl.len) = MalformedPublish
    /\ rl.buf[rl.len + 1] = 97
    /\ ~rl.out.called

(* C34: when the callback is called for a read of len bytes, the topic and   *)
(* the packet identifier lie within those bytes, and the payload length      *)
(* passed is len - offset without underflow: between 0 and len.              *)
C34_CallbackWithinReceived ==
    (rl.phase = "in" /\ rl.out.called)
       => /\ rl.out.plen >= 0 /\ rl.out.plen <= rl.len
          /\ Len(rl.out.topic) + MQTT_REMAINING_LENGTH_MAX <= rl.len

(* a is later than b on the uint32_t clock: 0 < a - b < 2^31 *)
Later(a, b) == Elapsed(a, b) # <<0, 0>> /\ Elapsed(a, b)[1] < UINT16_RANGE \div 2

(* C32: whenever waiting_pingresp is set, ping_sent_time is later than       *)
(* last_ping_time in the wrap-aware order of the uint32_t clock, also        *)
(* between the assignments of the PINGRESP branch and of a reconnect.        *)
C32_PingSentAfterActivity == waiting_pingresp => Later(ping_sent_time, last_ping_time)

====
